---------------------------- MODULE Spec2Model ----------------------------
(***************************************************************************)
(* A model of scaffold.py, the project scaffolding tool of the starter     *)
(* web application template: main() reads the name, the description and    *)
(* the target, ProjectScaffolder.scaffold() runs the pre-check and the     *)
(* steps copy, rewrite, git, bootstrap and summary on a file system.       *)
(* The last parts model scripts/delete-current-branch.py, which deletes    *)
(* the checked-out branch once it is merged, and backend/deploy.py, which  *)
(* runs the database migrations of a deployment.                           *)
(*                                                                         *)
(* Text is a sequence of tokens (strings that are never split): a project  *)
(* name is a sequence of one-character tokens, a file's content a sequence *)
(* of words and separators.  A path is the sequence of its components.     *)
(***************************************************************************)
EXTENDS Integers, Sequences, FiniteSets, TLC

(***************************************************************************)
(* Bounds of the model.                                                    *)
(***************************************************************************)
\* the longest raw project name the user types
MaxNameLen == 2
\* an I/O error is injected before the k-th file operation, k <= MaxIOFailPoint
MaxIOFailPoint == 2

(***************************************************************************)
(* Characters and the str methods the tool uses.                           *)
(***************************************************************************)
LowerLetters == {"a", "starter", "webapp", "frontend", "backend", "db"}
UpperLetters == {"A", "Starter", "Web", "App"}
Digits       == {"1"}
Separators   == {"-", "_"}
Whitespace   == {" ", "\n"}

\* the characters a raw project name is typed from
NameAlphabet == {"a", "A", "1", "-", "_", " "}

\* str.lower() on one token
LowerTok(t) ==
    CASE t = "A"       -> "a"
      [] t = "Starter" -> "starter"
      [] t = "Web"     -> "web"
      [] t = "App"     -> "app"
      [] t = "Y"       -> "y"
      [] t = "N"       -> "n"
      [] t = "Merge"   -> "merge"
      [] OTHER         -> t

\* str.upper() on the first character of one token
UpperTok(t) ==
    CASE t = "a"        -> "A"
      [] t = "starter"  -> "Starter"
      [] t = "webapp"   -> "Webapp"
      [] t = "web"      -> "Web"
      [] t = "app"      -> "App"
      [] t = "frontend" -> "Frontend"
      [] t = "backend"  -> "Backend"
      [] t = "db"       -> "Db"
      [] OTHER          -> t

IsLetter(t) == t \in LowerLetters \cup UpperLetters \cup {"web", "app", "Webapp", "Frontend", "Backend", "Db"}

Lower(s) == [i \in 1..Len(s) |-> LowerTok(s[i])]

RECURSIVE LStrip(_, _)
LStrip(s, chars) ==
    IF s # <<>> /\ Head(s) \in chars THEN LStrip(Tail(s), chars) ELSE s

RECURSIVE RStrip(_, _)
RStrip(s, chars) ==
    IF s # <<>> /\ s[Len(s)] \in chars THEN RStrip(SubSeq(s, 1, Len(s) - 1), chars) ELSE s

\* str.strip(chars)
Strip(s, chars) == RStrip(LStrip(s, chars), chars)

\* whether text s has the text old at position i
MatchAt(s, old, i) ==
    /\ i + Len(old) - 1 <= Len(s)
    /\ \A k \in 1..Len(old) : s[i + k - 1] = old[k]

\* a faulty variant of Replace: str.replace(old, new, 1), the first
\* occurrence only
RECURSIVE Replace_first_only(_, _, _)
Replace_first_only(s, old, new) ==
    IF s = <<>> \/ old = <<>> THEN s
    ELSE IF MatchAt(s, old, 1)
         THEN new \o SubSeq(s, Len(old) + 1, Len(s))
         ELSE <<Head(s)>> \o Replace_first_only(Tail(s), old, new)

\* str.replace(old, new): every non-overlapping occurrence, leftmost first
RECURSIVE Replace(_, _, _)
Replace(s, old, new) ==
    IF s = <<>> \/ old = <<>> THEN s
    ELSE IF MatchAt(s, old, 1)
         THEN new \o Replace(SubSeq(s, Len(old) + 1, Len(s)), old, new)
         ELSE <<Head(s)>> \o Replace(Tail(s), old, new)

\* whether text s contains the text sub
Contains(s, sub) == \E i \in 1..Len(s) : MatchAt(s, sub, i)

(***************************************************************************)
(* validate_project_name and sanitize_name.                                *)
(***************************************************************************)
\* the character class [a-z0-9\-_]
NameChars == (LowerLetters \cup {"web", "app"}) \cup Digits \cup Separators

\* the number of characters of one token: a word token stands for its letters
CharLen(t) ==
    CASE t \in {"starter", "backend", "Starter", "Backend"} -> 7
      [] t \in {"webapp", "Webapp"}     -> 6
      [] t \in {"frontend", "Frontend"} -> 8
      [] t \in {"web", "app", "Web", "App"} -> 3
      [] t \in {"db", "Db"}             -> 2
      [] OTHER                          -> 1

\* len(s)
RECURSIVE TextLen(_)
TextLen(s) == IF s = <<>> THEN 0 ELSE CharLen(Head(s)) + TextLen(Tail(s))

\* [a-z][a-z0-9\-_]*[a-z0-9] over the whole of s: at least two characters,
\* the first a letter, the last a letter or a digit
FullMatch(s) ==
    /\ TextLen(s) >= 2
    /\ s[1] \in NameChars \ (Digits \cup Separators)
    /\ \A i \in 2..(Len(s) - 1) : s[i] \in NameChars
    /\ s[Len(s)] \in NameChars \ Separators

\* re.match(r'^[a-z][a-z0-9\-_]*[a-z0-9]$', name): $ matches at the end of
\* the string and before a newline that ends the string
validate_project_name(name) ==
    /\ \/ FullMatch(name)
       \/ /\ name # <<>>
          /\ name[Len(name)] = "\n"
          /\ FullMatch(SubSeq(name, 1, Len(name) - 1))
    /\ TextLen(name) >= 2

\* re.sub(r'-+', '-', s)
RECURSIVE CollapseHyphens(_)
CollapseHyphens(s) ==
    IF Len(s) < 2 THEN s
    ELSE IF s[1] = "-" /\ s[2] = "-" THEN CollapseHyphens(Tail(s))
         ELSE <<Head(s)>> \o CollapseHyphens(Tail(s))

\* a faulty variant of sanitize_name: the separators at the ends are
\* stripped first, before the other characters are replaced by hyphens
sanitize_name_strip_first(name) ==
    LET lowered  == Strip(Lower(name), Separators)
        replaced == [i \in 1..Len(lowered) |->
                        IF lowered[i] \in NameChars THEN lowered[i] ELSE "-"]
    IN  CollapseHyphens(replaced)

sanitize_name(name) ==
    LET lowered  == Lower(name)
        replaced == [i \in 1..Len(lowered) |->
                        IF lowered[i] \in NameChars THEN lowered[i] ELSE "-"]
    IN  Strip(CollapseHyphens(replaced), Separators)


(***************************************************************************)
(* Paths and the file system: the files with their content, and the        *)
(* directories.                                                            *)
(***************************************************************************)
IsPrefix(p, q) == Len(p) <= Len(q) /\ SubSeq(q, 1, Len(p)) = p

\* Path.name
Basename(p) == p[Len(p)]

\* Path.parent
Parent(p) == SubSeq(p, 1, Len(p) - 1)

\* Path.exists()
Exists(fs, p) == p \in DOMAIN fs.files \/ p \in fs.dirs

\* the names of the entries of directory d (os.scandir, Path.iterdir)
ListDir(fs, d) ==
    {Basename(q) : q \in {r \in DOMAIN fs.files \cup fs.dirs :
                             Len(r) = Len(d) + 1 /\ IsPrefix(d, r)}}

\* the files at or below p
FilesUnder(fs, p) == {q \in DOMAIN fs.files : IsPrefix(p, q)}

\* open(p, 'w').write(c), shutil.copy2's write of the destination
WriteFile(fs, p, c) ==
    [fs EXCEPT !.files = [q \in DOMAIN fs.files \cup {p} |->
                             IF q = p THEN c ELSE fs.files[q]]]

\* Path.mkdir(parents=True, exist_ok=True)
Mkdir(fs, d) ==
    [fs EXCEPT !.dirs = fs.dirs \cup {SubSeq(d, 1, k) : k \in 1..Len(d)}]

\* mkdir fails when a component of d is an existing file
MkdirBlocked(fs, d) == \E k \in 1..Len(d) : SubSeq(d, 1, k) \in DOMAIN fs.files

(***************************************************************************)
(* The machine the tool runs on: the template (the directory of            *)
(* scaffold.py), and a working directory with an empty and a used          *)
(* directory.                                                              *)
(***************************************************************************)
\* Path(__file__).parent.resolve()
template_dir == <<"tpl">>

PlaceholderDescription == "Full-stack template with FastAPI + React"

InitFiles ==
    (<<"tpl", "README.md">> :>
        <<"Starter", " ", "Web", " ", "App", "\n", PlaceholderDescription>>)
 @@ (<<"tpl", "package.json">> :> <<"starter", "-", "webapp">>)
 @@ (<<"tpl", "DEVELOPMENT.md">> :> <<"starter", "-", "webapp">>)
 @@ (<<"tpl", "scaffold.py">> :> <<"scaffold">>)
 @@ (<<"tpl", ".git", "HEAD">> :> <<"ref">>)
 @@ (<<"tpl", "backend", "requirements.txt">> :> <<"fastapi">>)
 @@ (<<"tpl", "backend", "render.yaml">> :>
        <<"starter", "-", "webapp", "-", "backend", "\n",
          "starter", "-", "webapp", "-", "db">>)
 @@ (<<"tpl", "backend", ".env.example">> :> <<"starter", "_", "webapp">>)
 @@ (<<"tpl", "backend", ".env">> :> <<"secret">>)
 @@ (<<"tpl", "backend", "venv", "pyvenv.cfg">> :> <<"venv">>)
 @@ (<<"tpl", "backend", "app", "main.py">> :> <<"py">>)
 @@ (<<"tpl", "backend", "app", "main.pyc">> :> <<"pyc">>)
 @@ (<<"tpl", "frontend", "package.json">> :>
        <<"starter", "-", "webapp", "-", "frontend">>)
 @@ (<<"tpl", "frontend", ".env.example">> :> <<"vite">>)
 @@ (<<"tpl", "frontend", "node_modules", "dep", "index.js">> :> <<"js">>)
 @@ (<<"work", "used", "notes.txt">> :> <<"user">>)
 @@ (<<"work", "used", "PROJECT_SUMMARY.md">> :> <<"old", "summary">>)
 @@ (<<"work", "used", "backend", ".env">> :> <<"user", "secret">>)

InitDirs ==
    UNION {{SubSeq(p, 1, k) : k \in 1..(Len(p) - 1)} : p \in DOMAIN InitFiles}
        \cup {<<"work", "empty">>}

(***************************************************************************)
(* ProjectScaffolder: the derived names, the exclusion rules, the files    *)
(* to rewrite.                                                             *)
(***************************************************************************)
\* str.title(): a letter after a non-letter is upper-cased, any other lowered
Title(s) ==
    [i \in 1..Len(s) |->
        IF ~IsLetter(s[i]) THEN s[i]
        ELSE IF i > 1 /\ IsLetter(s[i - 1]) THEN LowerTok(s[i])
             ELSE UpperTok(LowerTok(s[i]))]

\* str.capitalize(): the first character upper-cased, the others lowered
Capitalize(w) ==
    IF w = <<>> THEN <<>> ELSE <<UpperTok(LowerTok(Head(w)))>> \o Lower(Tail(w))

\* str.split(sep) for a one-character separator
RECURSIVE Split(_, _)
Split(s, sep) ==
    IF \A i \in 1..Len(s) : s[i] # sep THEN <<s>>
    ELSE LET k == CHOOSE i \in 1..Len(s) :
                      s[i] = sep /\ \A j \in 1..(i - 1) : s[j] # sep
         IN  <<SubSeq(s, 1, k - 1)>> \o Split(SubSeq(s, k + 1, Len(s)), sep)

\* ''.join(words)
RECURSIVE Join(_)
Join(words) == IF words = <<>> THEN <<>> ELSE Head(words) \o Join(Tail(words))

snake_case_name(name) == Replace(name, <<"-">>, <<"_">>)

title_case_name(name) ==
    Title(Replace(Replace(name, <<"-">>, <<" ">>), <<"_">>, <<" ">>))

\* a faulty variant of camel_case_name: the first word is left out
camel_case_name_without_first_word(name) ==
    LET words == Tail(Split(Replace(name, <<"-">>, <<"_">>), "_"))
    IN  Join([i \in 1..Len(words) |-> Capitalize(words[i])])

camel_case_name(name) ==
    LET words == Split(Replace(name, <<"-">>, <<"_">>), "_")
    IN  Join([i \in 1..Len(words) |-> Capitalize(words[i])])

\* a faulty variant of exclude_patterns: compiled Python files are copied
exclude_patterns_without_pyc ==
    { <<"__pycache__">>, <<".git">>,
      <<".gitignore">>, <<"venv">>, <<"node_modules">>, <<".env">>,
      <<"*", ".db">>, <<"dist">>, <<".vite">>, <<"temp.tmp">>, <<"scaffold.py">> }

\* a rule is the text of the pattern: <<"*", ".pyc">> is '*.pyc'
exclude_patterns ==
    { <<"__pycache__">>, <<"*", ".pyc">>, <<"*", ".pyo">>, <<".git">>,
      <<".gitignore">>, <<"venv">>, <<"node_modules">>, <<".env">>,
      <<"*", ".db">>, <<"dist">>, <<".vite">>, <<"temp.tmp">>, <<"scaffold.py">> }

template_files ==
    << <<"README.md">>, <<"package.json">>, <<"backend", "requirements.txt">>,
       <<"backend", "render.yaml">>, <<"frontend", "package.json">>,
       <<"frontend", "wrangler.toml">>, <<"frontend", "index.html">>,
       <<"frontend", "src", "App.jsx">>, <<"backend", ".env.example">>,
       <<"frontend", ".env.example">> >>

\* the text of a file name of the model: the stem and the extension of a
\* name with an extension that a rule names
NameText(name) ==
    CASE name = "main.pyc"  -> <<"main", ".pyc">>
      [] name = "dep.pyc"   -> <<"dep", ".pyc">>
      [] name = "foo.pyc"   -> <<"foo", ".pyc">>
      [] name = "foo.pyo"   -> <<"foo", ".pyo">>
      [] name = "app.db"    -> <<"app", ".db">>
      [] name = "readme.md" -> <<"readme", ".md">>
      [] name = "my.env"    -> <<"my", ".env">>
      [] OTHER              -> <<name>>

\* text.endswith(suffix)
TextEndsWith(text, suffix) ==
    /\ Len(suffix) <= Len(text)
    /\ SubSeq(text, Len(text) - Len(suffix) + 1, Len(text)) = suffix

\* str.endswith(suffix) for the file names of the model
EndsWith(name, suffix) == TextEndsWith(NameText(name), suffix)

\* an order in which a set is iterated: arbitrary, and fixed for the process
RECURSIVE IterationOrder(_)
IterationOrder(S) ==
    IF S = {} THEN <<>>
    ELSE LET x == CHOOSE y \in S : TRUE
         IN  <<x>> \o IterationOrder(S \ {x})

\* a faulty variant of Matches: the loop returns on the first rule, whether
\* it matches or not
RECURSIVE Matches_first_rule_only(_, _)
Matches_first_rule_only(text, rules) ==
    IF rules = <<>> THEN FALSE
    ELSE LET pattern == Head(rules)
         IN  IF Head(pattern) = "*"
             THEN TextEndsWith(text, Tail(pattern))
             ELSE text = pattern

\* the loop of should_exclude, lines 123-129, over the rules in the order
\* they are iterated: the first rule that matches returns True
RECURSIVE Matches(_, _)
Matches(text, rules) ==
    IF rules = <<>> THEN FALSE
    ELSE LET pattern == Head(rules)
         IN  IF Head(pattern) = "*"
             THEN IF TextEndsWith(text, Tail(pattern)) THEN TRUE
                  ELSE Matches(text, Tail(rules))
             ELSE IF text = pattern THEN TRUE
                  ELSE Matches(text, Tail(rules))

\* the order in which this process iterates self.exclude_patterns
exclude_patterns_order == IterationOrder(exclude_patterns)

\* should_exclude(path): some rule matches the path's name
should_exclude(path) == Matches(NameText(Basename(path)), exclude_patterns_order)

(***************************************************************************)
(* copy_template_structure: os.walk over the template, top down.  The      *)
(* state of a copy is the file system, the number of files copied and the  *)
(* error that ended it.                                                    *)
(***************************************************************************)
\* the orders in which a directory is listed (os.scandir gives no order)
NameOrder ==
    << ".env", ".env.example", ".git", ".gitignore", "DEVELOPMENT.md", "HEAD",
       "PROJECT_SUMMARY.md", "README.md", "app", "backend", "dep", "dep.pyc",
       "empty", "frontend", "index.js", "lib", "main.py", "main.pyc",
       "node_modules", "notes.txt", "package.json", "pyvenv.cfg",
       "render.yaml", "requirements.txt", "scaffold.py", "sub", "used", "venv" >>

ListOrders == {NameOrder, [i \in 1..Len(NameOrder) |-> NameOrder[Len(NameOrder) + 1 - i]]}

\* shutil.copy2(src, dst) as the failAt-th copy of the step raises OSError
copy2(st, src, dst, failAt) ==
    IF st.n = failAt THEN [st EXCEPT !.err = "OSError"]
    ELSE IF src = dst THEN [st EXCEPT !.err = "SameFileError"]
    ELSE IF dst \in st.dirs THEN [st EXCEPT !.err = "IsADirectoryError"]
    ELSE [WriteFile(st, dst, st.files[src]) EXCEPT !.n = st.n + 1]

\* the body of the loop over the files of one directory
RECURSIVE CopyFiles(_, _, _, _, _)
CopyFiles(st, root, names, target, failAt) ==
    IF names = <<>> \/ st.err # "" THEN st
    ELSE LET src_path  == Append(root, Head(names))
             rel_path  == SubSeq(src_path, Len(template_dir) + 1, Len(src_path))
             dest_path == target \o rel_path
             made      == IF MkdirBlocked(st, Parent(dest_path))
                          THEN [st EXCEPT !.err = "FileExistsError"]
                          ELSE Mkdir(st, Parent(dest_path))
             next      == IF should_exclude(src_path) THEN st
                          ELSE IF made.err # "" THEN made
                          ELSE copy2(made, src_path, dest_path, failAt)
         IN  CopyFiles(next, root, Tail(names), target, failAt)

\* a faulty variant of Walk: the excluded directories are not removed from
\* the traversal, only the excluded files are skipped
RECURSIVE Walk_without_pruning(_, _, _, _, _)
Walk_without_pruning(st, stack, order, target, failAt) ==
    IF stack = <<>> \/ st.err # "" THEN st
    ELSE LET root    == Head(stack)
             entries == ListDir(st, root)
             dirs_   == SelectSeq(order, LAMBDA n :
                            n \in entries /\ Append(root, n) \in st.dirs)
             files_  == SelectSeq(order, LAMBDA n :
                            n \in entries /\ Append(root, n) \in DOMAIN st.files)
             after   == CopyFiles(st, root, files_, target, failAt)
         IN  Walk_without_pruning(after,
                  [i \in 1..Len(dirs_) |-> Append(root, dirs_[i])] \o Tail(stack),
                  order, target, failAt)

\* os.walk: list the directory on top of the stack, prune the excluded
\* directories, hand the files to the loop body, then descend
RECURSIVE Walk(_, _, _, _, _)
Walk(st, stack, order, target, failAt) ==
    IF stack = <<>> \/ st.err # "" THEN st
    ELSE LET root    == Head(stack)
             entries == ListDir(st, root)
             dirs_   == SelectSeq(order, LAMBDA n :
                            n \in entries /\ Append(root, n) \in st.dirs)
             files_  == SelectSeq(order, LAMBDA n :
                            n \in entries /\ Append(root, n) \in DOMAIN st.files)
             kept    == SelectSeq(dirs_, LAMBDA d : ~should_exclude(Append(root, d)))
             after   == CopyFiles(st, root, files_, target, failAt)
         IN  Walk(after, [i \in 1..Len(kept) |-> Append(root, kept[i])] \o Tail(stack),
                  order, target, failAt)

\* the file system after copy_template_structure, and the error that ended it
CopyOutcome(fs, order, target, failAt) ==
    Walk([files |-> fs.files, dirs |-> fs.dirs, n |-> 0, err |-> ""],
         <<template_dir>>, order, target, failAt)

(***************************************************************************)
(* update_file_contents.                                                   *)
(***************************************************************************)
\* a faulty variant of replacements: the first entry gives the identifier
\* form of the name
replacements_first_entry_snake(name, desc) ==
    << << <<"starter", "-", "webapp">>, snake_case_name(name) >>,
       << <<"starter", "_", "webapp">>, snake_case_name(name) >>,
       << <<"Starter", " ", "Web", " ", "App">>, title_case_name(name) >>,
       << <<PlaceholderDescription>>, desc >>,
       << <<"starter", "-", "webapp", "-", "frontend">>, name \o <<"-", "frontend">> >>,
       << <<"starter", "-", "webapp", "-", "backend">>, name \o <<"-", "backend">> >>,
       << <<"starter", "-", "webapp", "-", "db">>, name \o <<"-", "db">> >> >>

\* a faulty variant of replacements: the entry of starter-webapp comes last
replacements_name_entry_last(name, desc) ==
    << << <<"starter", "_", "webapp">>, snake_case_name(name) >>,
       << <<"Starter", " ", "Web", " ", "App">>, title_case_name(name) >>,
       << <<PlaceholderDescription>>, desc >>,
       << <<"starter", "-", "webapp", "-", "frontend">>, name \o <<"-", "frontend">> >>,
       << <<"starter", "-", "webapp", "-", "backend">>, name \o <<"-", "backend">> >>,
       << <<"starter", "-", "webapp", "-", "db">>, name \o <<"-", "db">> >>,
       << <<"starter", "-", "webapp">>, name >> >>

\* the replacements dict, in insertion order
replacements(name, desc) ==
    << << <<"starter", "-", "webapp">>, name >>,
       << <<"starter", "_", "webapp">>, snake_case_name(name) >>,
       << <<"Starter", " ", "Web", " ", "App">>, title_case_name(name) >>,
       << <<PlaceholderDescription>>, desc >>,
       << <<"starter", "-", "webapp", "-", "frontend">>, name \o <<"-", "frontend">> >>,
       << <<"starter", "-", "webapp", "-", "backend">>, name \o <<"-", "backend">> >>,
       << <<"starter", "-", "webapp", "-", "db">>, name \o <<"-", "db">> >> >>

\* for old, new in replacements.items(): content = content.replace(old, new)
RECURSIVE ApplyReplacements(_, _)
ApplyReplacements(content, table) ==
    IF table = <<>> THEN content
    ELSE ApplyReplacements(Replace(content, Head(table)[1], Head(table)[2]), Tail(table))

\* the search texts of the table that occur in the content when their turn
\* comes in the loop, that is, the entries whose replace changes something
MatchingEntries(content, table) ==
    {table[i][1] : i \in {j \in 1..Len(table) :
        Contains(ApplyReplacements(content, SubSeq(table, 1, j - 1)), table[j][1])}}

\* a faulty variant of RewriteFiles: a listed file that does not exist is
\* opened all the same, which raises
RECURSIVE RewriteFiles_no_exists_check(_, _, _, _, _)
RewriteFiles_no_exists_check(st, todo, target, table, failAt) ==
    IF todo = <<>> \/ st.err # "" THEN st
    ELSE LET file_path == target \o Head(todo)
             next == IF ~Exists(st, file_path)
                          THEN [st EXCEPT !.err = "FileNotFoundError"]
                     ELSE IF file_path \in st.dirs
                          THEN [st EXCEPT !.err = "IsADirectoryError"]
                     ELSE IF st.n = failAt THEN [st EXCEPT !.err = "OSError"]
                     ELSE [WriteFile(st, file_path,
                                     ApplyReplacements(st.files[file_path], table))
                              EXCEPT !.n = st.n + 1]
         IN  RewriteFiles_no_exists_check(next, Tail(todo), target, table, failAt)

\* the loop over template_files; the failAt-th file that exists cannot be read
RECURSIVE RewriteFiles(_, _, _, _, _)
RewriteFiles(st, todo, target, table, failAt) ==
    IF todo = <<>> \/ st.err # "" THEN st
    ELSE LET file_path == target \o Head(todo)
             next == IF ~Exists(st, file_path) THEN st
                     ELSE IF file_path \in st.dirs
                          THEN [st EXCEPT !.err = "IsADirectoryError"]
                     ELSE IF st.n = failAt THEN [st EXCEPT !.err = "OSError"]
                     ELSE [WriteFile(st, file_path,
                                     ApplyReplacements(st.files[file_path], table))
                              EXCEPT !.n = st.n + 1]
         IN  RewriteFiles(next, Tail(todo), target, table, failAt)

RewriteOutcome(fs, target, name, desc, failAt) ==
    RewriteFiles([files |-> fs.files, dirs |-> fs.dirs, n |-> 0, err |-> ""],
                 template_files, target, replacements(name, desc), failAt)

(***************************************************************************)
(* The git repository of the target, and what the generated .gitignore     *)
(* keeps out of it.                                                        *)
(***************************************************************************)
GitignoreContent == <<"gitignore">>

\* the names of the model that a rule of the generated .gitignore matches
GitIgnoredNames ==
    {"__pycache__", "main.pyc", "dep.pyc", "dist", "lib", "venv", ".env",
     "node_modules", ".vite", "temp.tmp"}

\* the files `git add .` stages: those of the work tree that no rule ignores
Stageable(fs, target) ==
    {q \in FilesUnder(fs, target) :
        \A k \in (Len(target) + 1)..Len(q) : q[k] \notin GitIgnoredNames \cup {".git"}}

NoRepo == [initialized |-> FALSE, index |-> <<>>, commits |-> <<>>]

(***************************************************************************)
(* The state of a run.                                                     *)
(***************************************************************************)
VARIABLES
    pc,            \* where the run is: main, sanitize, describe, create,
                   \* scaffold, copy, rewrite, git, bootstrap, summary,
                   \* finish, done
    exit_code,     \* the exit status of the process; -1 while it runs
    exit_at,       \* the statement that ended the process
    traceback,     \* whether the interpreter printed a stack trace
    skip_deps,     \* args.skip_deps
    project_name,  \* project_name of main, then self.project_name
    description,   \* description of main, then self.description
    target_dir,    \* self.target_dir, resolved
    response,      \* the answer to "Continue anyway?"
    files,         \* the files of the machine: path -> content
    dirs,          \* the directories of the machine
    repo,          \* the git repository at the target
    out,           \* the messages logged
    ran,           \* the steps of scaffold() run, in order, each with its
                   \* outcome: <<step name, "ok" | "failed" | "warned" | "raised">>
    cmds,          \* the commands handed to run_command and subprocess
    current_branch, \* current_branch of delete-current-branch.py's main
    environ        \* os.environ in a run of backend/deploy.py: the variables
                   \* that are set, each with its value

\* In a run of scripts/delete-current-branch.py, repo is the repository of
\* the working directory, response what the user types at the confirmation
\* prompt, out what is printed, cmds the operations called on the
\* repository, in order, and ran the steps of main passed, in order.

vars == << pc, exit_code, exit_at, traceback, skip_deps, project_name,
           description, target_dir, response, files, dirs, repo, out, ran, cmds,
           current_branch, environ >>

fsvars == << files, dirs, repo >>

\* what input() gives when there is no terminal, and when the user interrupts
EOFError == <<"EOFError">>
KeyboardInterrupt == <<"KeyboardInterrupt">>

RECURSIVE SeqsUpTo(_, _)
SeqsUpTo(S, n) ==
    IF n = 0 THEN {<<>>}
    ELSE LET shorter == SeqsUpTo(S, n - 1)
         IN  shorter \cup {Append(s, c) : s \in shorter, c \in S}

\* what the user passes as --name or types at the prompt
RawNames == SeqsUpTo(NameAlphabet, MaxNameLen)

DefaultDescription == <<"A full-stack web application built with FastAPI and React">>

\* what the user passes as --description or types at the prompt
Descriptions == {<<>>, <<"A blog">>}

\* the resolved --target directories (the default ./NAME resolved in the
\* directory the tool is started from, which may be the template itself)
TargetDirs ==
    {<<"work", "new">>, <<"work", "empty">>, <<"work", "used">>,
     <<"tpl">>, <<"tpl", "sub">>}

\* what the user types at "Continue anyway? (y/N)"
Answers == {<<"y">>, <<"Y">>, <<"n">>, <<>>, <<"y", "e", "s">>}

NotAsked == <<"not asked">>

Init ==
    /\ pc = "main"
    /\ exit_code = -1
    /\ exit_at = ""
    /\ traceback = FALSE
    /\ skip_deps = FALSE
    /\ current_branch = <<>>
    /\ environ = <<>>
    /\ project_name = <<>>
    /\ description = <<>>
    /\ target_dir = <<>>
    /\ response = NotAsked
    /\ files = InitFiles
    /\ dirs = InitDirs
    /\ repo = NoRepo
    /\ out = <<>>
    /\ ran = <<>>
    /\ cmds = <<>>

\* sys.exit(code), or the interpreter ending on an uncaught exception
Exit(code, at, trace) ==
    /\ pc' = "done"
    /\ exit_code' = code
    /\ exit_at' = at
    /\ traceback' = trace

Running == UNCHANGED << exit_code, exit_at, traceback >>

(***************************************************************************)
(* main().                                                                 *)
(***************************************************************************)
\* lines 563-573: the arguments are parsed, the name is taken from --name or
\* asked for (outside any try), and an empty name ends the run
GetProjectName ==
    /\ pc = "main"
    /\ \E skip \in BOOLEAN, name \in RawNames :
        /\ skip_deps' = skip
        /\ IF name # <<>>
           THEN /\ project_name' = name
                /\ pc' = "sanitize"
                /\ out' = out
                /\ Running
           ELSE \E typed \in RawNames \cup {EOFError, KeyboardInterrupt} :
                  IF typed = EOFError
                  THEN /\ Exit(1, "uncaught EOFError", TRUE)
                       /\ UNCHANGED << project_name, out >>
                  ELSE IF typed = KeyboardInterrupt
                  THEN /\ \E code \in {1, 130} : Exit(code, "uncaught KeyboardInterrupt", TRUE)
                       /\ UNCHANGED << project_name, out >>
                  ELSE /\ project_name' = Strip(typed, Whitespace)
                       /\ IF Strip(typed, Whitespace) = <<>>
                          THEN /\ out' = Append(out, <<"Project name is required">>)
                               /\ Exit(1, "name required", FALSE)
                          ELSE /\ out' = out
                               /\ pc' = "sanitize"
                               /\ Running
    /\ UNCHANGED << environ, current_branch, description, target_dir, response, fsvars, ran, cmds >>

\* a faulty variant of SanitizeAndValidate: an invalid name is reported but
\* the run goes on
SanitizeAndValidate_no_exit ==
    /\ pc = "sanitize"
    /\ project_name' = sanitize_name(project_name)
    /\ out' = IF validate_project_name(sanitize_name(project_name)) THEN out
              ELSE Append(out, <<"Invalid project name">>)
    /\ pc' = "describe"
    /\ Running
    /\ UNCHANGED << environ, current_branch, skip_deps, description, target_dir, response, fsvars, ran, cmds >>

\* a faulty variant of SanitizeAndValidate: the name as the user gave it is
\* validated, not the sanitized one
SanitizeAndValidate_validates_raw ==
    /\ pc = "sanitize"
    /\ LET original_name == project_name
           sanitized     == sanitize_name(project_name)
           shown         == IF sanitized # original_name
                            THEN Append(out, <<"Project name sanitized">>)
                            ELSE out
       IN  /\ project_name' = sanitized
           /\ IF ~validate_project_name(original_name)
              THEN /\ out' = Append(shown, <<"Invalid project name">>)
                   /\ Exit(1, "invalid name", FALSE)
              ELSE /\ out' = shown
                   /\ pc' = "describe"
                   /\ Running
    /\ UNCHANGED << environ, current_branch, skip_deps, description, target_dir, response, fsvars, ran, cmds >>

\* lines 575-586: the name is sanitized, a change is shown, and a name that
\* validate_project_name rejects ends the run
SanitizeAndValidate ==
    /\ pc = "sanitize"
    /\ LET original_name == project_name
           sanitized     == sanitize_name(project_name)
           shown         == IF sanitized # original_name
                            THEN Append(out, <<"Project name sanitized">>)
                            ELSE out
       IN  /\ project_name' = sanitized
           /\ IF ~validate_project_name(sanitized)
              THEN /\ out' = Append(shown, <<"Invalid project name">>)
                   /\ Exit(1, "invalid name", FALSE)
              ELSE /\ out' = shown
                   /\ pc' = "describe"
                   /\ Running
    /\ UNCHANGED << environ, current_branch, skip_deps, description, target_dir, response, fsvars, ran, cmds >>

\* lines 588-593: the description is taken from --description, or asked for
\* when it is empty or the default
GetDescription ==
    /\ pc = "describe"
    /\ \E given \in (Descriptions \ {<<>>}) \cup {DefaultDescription} :
        IF given # <<>> /\ given # DefaultDescription
        THEN /\ description' = given
             /\ pc' = "create"
             /\ Running
        ELSE \E typed \in Descriptions \cup {EOFError, KeyboardInterrupt} :
               IF typed = EOFError
               THEN /\ Exit(1, "uncaught EOFError", TRUE)
                    /\ UNCHANGED description
               ELSE IF typed = KeyboardInterrupt
               THEN /\ \E code \in {1, 130} : Exit(code, "uncaught KeyboardInterrupt", TRUE)
                    /\ UNCHANGED description
               ELSE /\ description' = IF typed # <<>> THEN typed ELSE given
                    /\ pc' = "create"
                    /\ Running
    /\ UNCHANGED << environ, current_branch, skip_deps, project_name, target_dir, response, fsvars, out, ran, cmds >>

\* lines 595-602 and 79-83: the target is resolved and the scaffolder built
CreateScaffolder ==
    /\ pc = "create"
    /\ \E target \in TargetDirs : target_dir' = target
    /\ pc' = "scaffold"
    /\ Running
    /\ UNCHANGED << environ, current_branch, skip_deps, project_name, description, response, fsvars, out, ran, cmds >>

\* the handlers of main's try, lines 607-612
Interrupted ==
    /\ out' = Append(out, <<"Scaffolding interrupted by user">>)
    /\ Exit(1, "except KeyboardInterrupt", FALSE)

Unexpected ==
    /\ out' = Append(out, <<"Unexpected error">>)
    /\ Exit(1, "except Exception", FALSE)

\* a faulty variant of ReturnFalse: the result of scaffold() is not looked at
ReturnFalse_exit_zero == Exit(0, "scaffold returned False", FALSE)

\* scaffold() returned False: sys.exit(1), line 606
ReturnFalse == Exit(1, "scaffold returned False", FALSE)

(***************************************************************************)
(* ProjectScaffolder.scaffold().                                           *)
(***************************************************************************)
\* a faulty variant of Confirmed: the empty answer counts as yes
Confirmed_default_yes(answer) == Lower(answer) \in {<<"y">>, <<>>}

\* line 458: the answer that lets scaffold() go on into a non-empty target
Confirmed(answer) == Lower(answer) = <<"y">>

\* lines 450-463: a target that exists and is not empty needs the answer y;
\* a target that does not exist is created
Precheck ==
    /\ pc = "scaffold"
    /\ LET fs == [files |-> files, dirs |-> dirs]
       IN  IF Exists(fs, target_dir)
           THEN IF ListDir(fs, target_dir) # {}
                THEN \E answer \in Answers \cup {EOFError, KeyboardInterrupt} :
                       /\ response' = answer
                       /\ UNCHANGED << files, dirs >>
                       /\ IF answer = EOFError
                          THEN /\ out' = out \o << <<"Target directory is not empty">>,
                                                    <<"Unexpected error">> >>
                               /\ Exit(1, "except Exception", FALSE)
                          ELSE IF answer = KeyboardInterrupt
                          THEN /\ out' = out \o << <<"Target directory is not empty">>,
                                                    <<"Scaffolding interrupted by user">> >>
                               /\ Exit(1, "except KeyboardInterrupt", FALSE)
                          ELSE IF ~Confirmed(answer)
                          THEN /\ out' = out \o << <<"Target directory is not empty">>,
                                                    <<"Scaffolding cancelled">> >>
                               /\ ReturnFalse
                          ELSE /\ out' = Append(out, <<"Target directory is not empty">>)
                               /\ pc' = "copy"
                               /\ Running
                ELSE /\ pc' = "copy"
                     /\ Running
                     /\ UNCHANGED << response, files, dirs, out >>
           ELSE \E mkdirFails \in BOOLEAN :
                  IF mkdirFails \/ MkdirBlocked(fs, target_dir)
                  THEN /\ Unexpected
                       /\ UNCHANGED << response, files, dirs >>
                  ELSE /\ dirs' = Mkdir(fs, target_dir).dirs
                       /\ pc' = "copy"
                       /\ Running
                       /\ UNCHANGED << response, files, out >>
    /\ UNCHANGED << environ, current_branch, skip_deps, project_name, description, target_dir, repo, ran, cmds >>

\* run_command(command, cwd, check), lines 40-58: subprocess.run raises
\* CalledProcessError only with check=True, so with check=False the result
\* is True whatever the exit status
run_command(exit_ok, check) == IF check THEN exit_ok ELSE TRUE

\* the injected I/O failure of a step: none (-1), or before file operation k
FailPoints == {-1} \cup 0..MaxIOFailPoint

\* a faulty variant of StepAfter: the repository is initialized before the
\* file contents are updated
StepAfter_git_first(step) ==
    CASE step = "copy"      -> "git"
      [] step = "git"       -> "rewrite"
      [] step = "rewrite"   -> "bootstrap"
      [] step = "bootstrap" -> "summary"

\* the steps list of scaffold(), lines 466-471, and the summary after it:
\* where the run goes after a step that returned True
StepAfter(step) ==
    CASE step = "copy"      -> "rewrite"
      [] step = "rewrite"   -> "git"
      [] step = "git"       -> "bootstrap"
      [] step = "bootstrap" -> "summary"

\* a faulty variant of StepFailed: the failure is logged and the loop goes on
StepFailed_goes_on(step_name, logged) ==
    /\ out' = logged \o << <<"Failed at step", step_name>> >>
    /\ pc' = CASE step_name = "Copying template structure"  -> "rewrite"
               [] step_name = "Updating file contents"      -> "git"
               [] step_name = "Initializing git repository" -> "bootstrap"
               [] OTHER                                     -> "summary"
    /\ Running

\* lines 473-477 for a step that returned False
StepFailed(step_name, logged) ==
    /\ out' = logged \o << <<"Failed at step", step_name>> >>
    /\ ReturnFalse

\* lines 473-475 for a step that returned True
StepDone(step, logged) ==
    /\ out' = logged
    /\ pc' = StepAfter(step)
    /\ Running

\* the first step of the loop: copy_template_structure, lines 131-162
CopyTemplateStructure ==
    /\ pc = "copy"
    /\ \E order \in ListOrders, failAt \in FailPoints :
        LET st == CopyOutcome([files |-> files, dirs |-> dirs], order, target_dir, failAt)
        IN  /\ files' = st.files
            /\ dirs' = st.dirs
            /\ IF st.err # ""
               THEN /\ ran' = Append(ran, <<"Copying template structure", "failed">>)
                    /\ StepFailed("Copying template structure",
                                  Append(out, <<"Failed to copy template structure">>))
               ELSE /\ ran' = Append(ran, <<"Copying template structure", "ok">>)
                    /\ StepDone("copy", Append(out, <<"Template structure copied successfully">>))
    /\ UNCHANGED << environ, current_branch, skip_deps, project_name, description, target_dir, response, repo, cmds >>

\* the second step: update_file_contents, lines 164-202
UpdateFileContents ==
    /\ pc = "rewrite"
    /\ \E failAt \in FailPoints :
        LET st == RewriteOutcome([files |-> files, dirs |-> dirs], target_dir,
                                 project_name, description, failAt)
        IN  /\ files' = st.files
            /\ dirs' = st.dirs
            /\ IF st.err # ""
               THEN /\ ran' = Append(ran, <<"Updating file contents", "failed">>)
                    /\ StepFailed("Updating file contents",
                                  Append(out, <<"Failed to update file contents">>))
               ELSE /\ ran' = Append(ran, <<"Updating file contents", "ok">>)
                    /\ StepDone("rewrite", Append(out, <<"File contents updated successfully">>))
    /\ UNCHANGED << environ, current_branch, skip_deps, project_name, description, target_dir, response, repo, cmds >>

\* a faulty variant of GitCommands: a failed `git add .` is logged and the
\* commit is attempted all the same
GitCommands_commit_anyway(failed) ==
    CASE failed = "git init" -> <<"git init">>
      [] failed = "write"    -> <<"git init">>
      [] OTHER -> <<"git init", "git add .", "git commit">>

\* the commands initialize_git_repository hands to run_command, lines 210,
\* 302 and 307: each `if not run_command(...): return False` ends the step,
\* and so does the write of .gitignore raising
GitCommands(failed) ==
    CASE failed = "git init" -> <<"git init">>
      [] failed = "write"    -> <<"git init">>
      [] failed = "git add ." -> <<"git init", "git add .">>
      [] OTHER -> <<"git init", "git add .", "git commit">>

\* the third step: initialize_git_repository, lines 204-314.  failed names
\* the operation that fails: a command that exits non-zero (run_command
\* returns False) or the write of .gitignore raising
InitializeGitRepository ==
    /\ pc = "git"
    /\ \E failed \in {"none", "git init", "write", "git add .", "git commit"} :
        LET fs0      == [files |-> files, dirs |-> dirs]
            inited   == Mkdir(fs0, Append(target_dir, ".git"))
            written  == WriteFile(inited, Append(target_dir, ".gitignore"), GitignoreContent)
            staged   == [q \in Stageable(written, target_dir) |-> written.files[q]]
            fs1      == IF failed = "git init" THEN fs0
                        ELSE IF failed = "write" THEN inited
                        ELSE written
        IN  /\ files' = fs1.files
            /\ dirs' = fs1.dirs
            /\ cmds' = cmds \o GitCommands(failed)
            /\ repo' =
                 CASE failed = "git init" -> repo
                   [] failed \in {"write", "git add ."} -> [repo EXCEPT !.initialized = TRUE]
                   [] failed = "git commit" ->
                        [repo EXCEPT !.initialized = TRUE, !.index = staged]
                   [] OTHER ->
                        [initialized |-> TRUE, index |-> staged,
                         commits |-> Append(repo.commits, staged)]
            /\ IF failed = "none"
               THEN /\ ran' = Append(ran, <<"Initializing git repository", "ok">>)
                    /\ StepDone("git", Append(out, <<"Git repository initialized with initial commit">>))
               ELSE /\ ran' = Append(ran, <<"Initializing git repository", "failed">>)
                    /\ StepFailed("Initializing git repository",
                                  IF failed = "write"
                                  THEN Append(out, <<"Failed to initialize git repository">>)
                                  ELSE Append(out, <<"Command failed", failed>>))
    /\ UNCHANGED << environ, current_branch, skip_deps, project_name, description, target_dir, response >>

\* the fourth step: setup_development_environment, lines 316-370.  envFail
\* names the .env copy that raises; venvOk, pipOk and npmOk are the exit
\* statuses of the installer commands
SetupDevelopmentEnvironment ==
    /\ pc = "bootstrap"
    /\ \E envFail \in {"none", "backend", "frontend"}, venvOk, pipOk, npmOk \in BOOLEAN :
        /\ pipOk => venvOk
        /\ LET backend_dir  == Append(target_dir, "backend")
               frontend_dir == Append(target_dir, "frontend")
               fs0 == [files |-> files, dirs |-> dirs]
               hasB == Exists(fs0, Append(backend_dir, ".env.example"))
               failB == hasB /\ envFail = "backend"
               fs1 == IF hasB /\ ~failB
                      THEN WriteFile(fs0, Append(backend_dir, ".env"),
                                     fs0.files[Append(backend_dir, ".env.example")])
                      ELSE fs0
               hasF == Exists(fs1, Append(frontend_dir, ".env.example"))
               failF == hasF /\ envFail = "frontend"
               fs2 == IF hasF /\ ~failF
                      THEN WriteFile(fs1, Append(frontend_dir, ".env"),
                                     fs1.files[Append(frontend_dir, ".env.example")])
                      ELSE fs1
               log2 == out \o (IF hasB /\ ~failB THEN << <<"Created backend/.env from template">> >> ELSE <<>>)
                           \o (IF hasF /\ ~failF THEN << <<"Created frontend/.env from template">> >> ELSE <<>>)
               hasReq == Exists(fs2, Append(backend_dir, "requirements.txt"))
               venv_success == run_command(venvOk, FALSE)
               fs3 == IF hasReq /\ venvOk
                      THEN WriteFile(Mkdir(fs2, Append(backend_dir, "venv")),
                                     backend_dir \o <<"venv", "pyvenv.cfg">>, <<"venv">>)
                      ELSE fs2
               fs4 == IF hasReq /\ venv_success /\ pipOk
                      THEN WriteFile(Mkdir(fs3, backend_dir \o <<"venv", "lib">>),
                                     backend_dir \o <<"venv", "lib", "dep.pyc">>, <<"pyc">>)
                      ELSE fs3
               cmdB == IF ~hasReq THEN <<>>
                       ELSE IF venv_success THEN <<"python -m venv venv", "pip install">>
                       ELSE <<"python -m venv venv">>
               logB == IF ~hasReq THEN <<>>
                       ELSE IF ~venv_success
                       THEN << <<"Virtual environment creation failed">> >>
                       ELSE IF run_command(pipOk, FALSE)
                       THEN << <<"Backend dependencies installed">> >>
                       ELSE << <<"Backend dependency installation failed">> >>
               hasPkg == Exists(fs4, Append(frontend_dir, "package.json"))
               fs5 == IF hasPkg /\ npmOk
                      THEN WriteFile(Mkdir(fs4, frontend_dir \o <<"node_modules", "dep">>),
                                     frontend_dir \o <<"node_modules", "dep", "index.js">>,
                                     <<"js">>)
                      ELSE fs4
               cmdF == IF hasPkg THEN <<"npm install">> ELSE <<>>
               logF == IF ~hasPkg THEN <<>>
                       ELSE IF run_command(npmOk, FALSE)
                       THEN << <<"Frontend dependencies installed">> >>
                       ELSE << <<"Frontend dependency installation failed">> >>
           IN  IF failB \/ failF
               THEN /\ files' = (IF failB THEN fs0 ELSE fs1).files
                    /\ dirs' = dirs
                    /\ cmds' = cmds
                    /\ ran' = Append(ran, <<"Setting up development environment", "failed">>)
                    /\ StepFailed("Setting up development environment",
                                  (IF failB THEN out ELSE
                                     out \o (IF hasB THEN << <<"Created backend/.env from template">> >> ELSE <<>>))
                                  \o << <<"Failed to set up development environment">> >>)
               ELSE /\ files' = fs5.files
                    /\ dirs' = fs5.dirs
                    /\ cmds' = cmds \o cmdB \o cmdF
                    /\ ran' = Append(ran, <<"Setting up development environment", "ok">>)
                    /\ StepDone("bootstrap", log2 \o logB \o logF)
    /\ UNCHANGED << environ, current_branch, skip_deps, project_name, description, target_dir, response, repo >>

\* a faulty variant of CreateProjectSummary: the summary that was written is
\* staged and committed
CreateProjectSummary_commits ==
    /\ pc = "summary"
    /\ cmds' = Append(cmds, "date")
    /\ \E failed \in {"none", "date", "write"} :
        IF failed = "date"
        THEN /\ ran' = Append(ran, <<"Creating project summary", "raised">>)
             /\ Unexpected
             /\ UNCHANGED << files, dirs, repo >>
        ELSE IF failed = "write"
        THEN /\ ran' = Append(ran, <<"Creating project summary", "warned">>)
             /\ out' = Append(out, <<"Could not create project summary">>)
             /\ pc' = "finish"
             /\ Running
             /\ UNCHANGED << files, dirs, repo >>
        ELSE LET written == WriteFile([files |-> files, dirs |-> dirs],
                                      Append(target_dir, "PROJECT_SUMMARY.md"),
                                      <<"summary">>)
                 staged  == [q \in Stageable(written, target_dir) |-> written.files[q]]
             IN  /\ ran' = Append(ran, <<"Creating project summary", "ok">>)
                 /\ files' = written.files
                 /\ repo' = [repo EXCEPT !.index = staged,
                                         !.commits = Append(repo.commits, staged)]
                 /\ out' = Append(out, <<"Created PROJECT_SUMMARY.md">>)
                 /\ pc' = "finish"
                 /\ Running
                 /\ UNCHANGED dirs
    /\ UNCHANGED << environ, current_branch, skip_deps, project_name, description, target_dir, response >>

\* create_project_summary, lines 372-446: the date command runs while the
\* text is built, outside the try; the write is inside it
CreateProjectSummary ==
    /\ pc = "summary"
    /\ cmds' = Append(cmds, "date")
    /\ \E failed \in {"none", "date", "write"} :
        IF failed = "date"
        THEN /\ ran' = Append(ran, <<"Creating project summary", "raised">>)
             /\ Unexpected
             /\ UNCHANGED << files, dirs >>
        ELSE IF failed = "write"
        THEN /\ ran' = Append(ran, <<"Creating project summary", "warned">>)
             /\ out' = Append(out, <<"Could not create project summary">>)
             /\ pc' = "finish"
             /\ Running
             /\ UNCHANGED << files, dirs >>
        ELSE /\ ran' = Append(ran, <<"Creating project summary", "ok">>)
             /\ files' = WriteFile([files |-> files, dirs |-> dirs],
                                   Append(target_dir, "PROJECT_SUMMARY.md"),
                                   <<"summary">>).files
             /\ out' = Append(out, <<"Created PROJECT_SUMMARY.md">>)
             /\ pc' = "finish"
             /\ Running
             /\ UNCHANGED dirs
    /\ UNCHANGED << environ, current_branch, skip_deps, project_name, description, target_dir, response, repo >>

\* lines 482-485 and 606: scaffold() returns True and main exits with 0
Finish ==
    /\ pc = "finish"
    /\ out' = Append(out, <<"Project created successfully!">>)
    /\ Exit(0, "scaffold returned True", FALSE)
    /\ UNCHANGED << environ, current_branch, skip_deps, project_name, description, target_dir, response,
                    fsvars, ran, cmds >>

\* the user interrupts scaffold() between two steps: lines 607-609
InterruptScaffold ==
    /\ pc \in {"copy", "rewrite", "git", "bootstrap", "summary", "finish"}
    /\ Interrupted
    /\ UNCHANGED << environ, current_branch, skip_deps, project_name, description, target_dir, response,
                    fsvars, ran, cmds >>

Next ==
    \/ GetProjectName
    \/ SanitizeAndValidate
    \/ GetDescription
    \/ CreateScaffolder
    \/ Precheck
    \/ CopyTemplateStructure
    \/ UpdateFileContents
    \/ InitializeGitRepository
    \/ SetupDevelopmentEnvironment
    \/ CreateProjectSummary
    \/ Finish
    \/ InterruptScaffold

Spec == Init /\ [][Next]_vars

(***************************************************************************)
(* Properties.                                                             *)
(***************************************************************************)
Range(seq) == {seq[i] : i \in 1..Len(seq)}

\* the names of the steps list, in its order, and the summary after them
StepNames ==
    << "Copying template structure", "Updating file contents",
       "Initializing git repository", "Setting up development environment" >>

PipelineOrder == Append(StepNames, "Creating project summary")

InstallerCommands == {"python -m venv venv", "pip install", "npm install"}

\* the target as it was before the run
TargetInitiallyNonEmpty ==
    ListDir([files |-> InitFiles, dirs |-> InitDirs], target_dir) # {}

\* nothing on the machine was created, changed or deleted, and no step ran
NothingDone ==
    /\ ran = <<>>
    /\ cmds = <<>>
    /\ files = InitFiles
    /\ dirs = InitDirs
    /\ repo = NoRepo

\* C1: when one of the four steps of the loop returns False, it is the last
\* step of the run (no later step, no summary), its name is logged as the
\* step that failed, scaffold() returns False and the process exits with 1.
C1_FailedStepStopsRun ==
    \A i \in 1..Len(ran) :
        (ran[i][1] \in Range(StepNames) /\ ran[i][2] = "failed") =>
            /\ i = Len(ran)
            /\ pc = "done"
            /\ exit_at = "scaffold returned False"
            /\ exit_code = 1
            /\ out[Len(out)] = <<"Failed at step", ran[i][1]>>

\* a run whose third step, initialize_git_repository, failed
C1_Witness ==
    /\ pc = "done"
    /\ Len(ran) = 3
    /\ ran[3] = <<"Initializing git repository", "failed">>

\* C2: the steps run at most once each, in the order copy, rewrite, git,
\* bootstrap, summary, each only after all earlier ones succeeded and after
\* the pre-check passed (valid name, target directory present, a non-empty
\* target confirmed); git init is never run before copy and rewrite succeeded.
C2_StepsInOrder ==
    /\ Len(ran) <= Len(PipelineOrder)
    /\ \A i \in 1..Len(ran) : ran[i][1] = PipelineOrder[i]
    /\ \A i \in 2..Len(ran) : ran[i - 1][2] = "ok"
    /\ ran # <<>> =>
          /\ FullMatch(project_name)
          /\ target_dir \in dirs
          /\ TargetInitiallyNonEmpty => Lower(response) = <<"y">>
    /\ (repo.initialized \/ "git init" \in Range(cmds)) =>
          /\ Len(ran) >= 3
          /\ ran[1] = <<"Copying template structure", "ok">>
          /\ ran[2] = <<"Updating file contents", "ok">>

\* a run that went through all five steps
C2_Witness ==
    /\ pc = "done"
    /\ exit_code = 0
    /\ Len(ran) = 5
    /\ repo.commits # <<>>

\* C3 as stated: with a non-empty target and any answer other than 'y' (or
\* no answer), nothing is done and the run fails.
C3_AbortsUnlessAnswerIsLowerY ==
    (target_dir # <<>> /\ pc # "scaffold" /\ TargetInitiallyNonEmpty
        /\ response # <<"y">>)
    => (pc = "done" /\ exit_code = 1 /\ NothingDone)

\* C3, amended: with a non-empty target and any answer other than 'y' or
\* 'Y' (or no answer: end of input, an interrupt), no step runs, nothing is
\* created, changed or deleted, and the process exits with 1.
C3_AbortsUnlessConfirmed ==
    (target_dir # <<>> /\ pc # "scaffold" /\ TargetInitiallyNonEmpty
        /\ response \notin {<<"y">>, <<"Y">>})
    => (pc = "done" /\ exit_code = 1 /\ NothingDone)

\* a run without a terminal into the used directory
C3_Witness ==
    /\ pc = "done"
    /\ target_dir = <<"work", "used">>
    /\ response = EOFError
    /\ exit_code = 1

\* C4: once the name has been read and checked, a name that is empty or
\* that validate_project_name rejects (after sanitizing) means the process
\* has exited with 1, no target was chosen, no step ran and nothing on the
\* machine changed.
C4_InvalidNameExitsBeforeMutation ==
    (/\ pc \notin {"main", "sanitize"}
     /\ exit_at \notin {"uncaught EOFError", "uncaught KeyboardInterrupt"}
     /\ (project_name = <<>> \/ ~validate_project_name(project_name)))
    => (pc = "done" /\ exit_code = 1 /\ target_dir = <<>> /\ NothingDone)

\* a name that is not empty after sanitizing and is rejected
C4_Witness ==
    /\ pc = "done"
    /\ exit_at = "invalid name"
    /\ project_name # <<>>
    /\ exit_code = 1

\* C5: a target that is the template directory or lies inside it is
\* rejected before anything is created: the target directory is not made
\* and the copy step never runs.
C5_TargetInsideTemplateRejected ==
    (target_dir # <<>> /\ IsPrefix(template_dir, target_dir))
    => (ran = <<>> /\ files = InitFiles /\ dirs = InitDirs)

\* C6: setup_development_environment always returns True, whatever fails in
\* it, so the run goes on to the summary.
C6_BootstrapAlwaysSucceeds ==
    \A i \in 1..Len(ran) :
        ran[i][1] = "Setting up development environment" => ran[i][2] = "ok"

\* C7: the bootstrap step never overwrites or changes a .env file that is
\* already there, in backend or in frontend.
C7_LiveEnvNeverOverwritten ==
    [][\A sub \in {"backend", "frontend"} :
          LET env == target_dir \o <<sub, ".env">>
          IN  (pc = "bootstrap" /\ env \in DOMAIN files)
                  => (env \in DOMAIN files' /\ files'[env] = files[env])]_vars

\* C8: with --skip-deps no installer command (venv creation, pip install,
\* npm install) is run.
C8_SkipDepsRunsNoInstaller ==
    skip_deps => \A i \in 1..Len(cmds) : cmds[i] \notin InstallerCommands

\* C9: after four successful steps a failure anywhere in
\* create_project_summary leaves the result as it is: unless the user
\* interrupts, the process exits with 0.
C9_SummaryFailureIsCosmetic ==
    (/\ pc = "done"
     /\ Len(ran) = 5
     /\ \A i \in 1..4 : ran[i][2] = "ok"
     /\ exit_at # "except KeyboardInterrupt")
    => exit_code = 0

\* what the tool logs on a fatal failure or a cancellation
FatalMessages ==
    { <<"Project name is required">>, <<"Invalid project name">>,
      <<"Unexpected error">>, <<"Scaffolding cancelled">> }

\* C10: the process exits with 0 exactly when the four steps succeeded, the
\* summary raised nothing and the user did not interrupt; after an invalid
\* name, a failed step, an unexpected exception or a cancellation at the
\* prompt it exits with exactly 1.
C10_ExitCode ==
    pc = "done" =>
        /\ exit_code = 0 <=>
              /\ Len(ran) = 5
              /\ \A i \in 1..4 : ran[i][2] = "ok"
              /\ ran[5][2] # "raised"
              /\ <<"Scaffolding interrupted by user">> \notin Range(out)
        /\ ((\E m \in Range(out) : m \in FatalMessages)
               \/ (\E i \in 1..Len(ran) : ran[i][2] \in {"failed", "raised"})
               \/ exit_at = "uncaught EOFError")
           => exit_code = 1

\* the user answers n at the prompt for the used directory
C10_Witness ==
    /\ pc = "done"
    /\ response = <<"n">>
    /\ <<"Scaffolding cancelled">> \in Range(out)
    /\ exit_code = 1

\* the git commands of the run, in the order they were handed to run_command
GitCommandsRun ==
    SelectSeq(cmds, LAMBDA c : c \in {"git init", "git add .", "git commit"})

\* C11: the git step runs init, the write of .gitignore, `git add .` and
\* the commit in this order; after a successful step on a freshly created
\* target there is a repository at the target root with exactly one commit;
\* when init or staging fails the step fails and no later operation, and no
\* commit, is attempted.
C11_GitInitThenOneCommit ==
    LET ignore == Append(target_dir, ".gitignore")
        fresh  == target_dir \notin InitDirs
    IN  /\ \E k \in 0..3 :
              GitCommandsRun = SubSeq(<<"git init", "git add .", "git commit">>, 1, k)
        /\ (fresh /\ ignore \in DOMAIN files) => repo.initialized
        /\ "git add ." \in Range(cmds) =>
              (ignore \in DOMAIN files /\ files[ignore] = GitignoreContent)
        /\ repo.index # <<>> => ignore \in DOMAIN repo.index
        /\ \A i \in 1..Len(repo.commits) : ignore \in DOMAIN repo.commits[i]
        /\ (fresh /\ <<"Initializing git repository", "ok">> \in Range(ran)) =>
              /\ repo.initialized
              /\ Append(target_dir, ".git") \in dirs
              /\ Len(repo.commits) = 1
              /\ GitCommandsRun = <<"git init", "git add .", "git commit">>
        /\ <<"Command failed", "git init">> \in Range(out) =>
              /\ GitCommandsRun = <<"git init">>
              /\ repo = NoRepo
              /\ fresh => ignore \notin DOMAIN files
              /\ ran[Len(ran)] = <<"Initializing git repository", "failed">>
        /\ <<"Command failed", "git add .">> \in Range(out) =>
              /\ GitCommandsRun = <<"git init", "git add .">>
              /\ repo.commits = <<>>
              /\ ran[Len(ran)] = <<"Initializing git repository", "failed">>

\* a run into a new directory whose `git add .` failed
C11_Witness ==
    /\ pc = "done"
    /\ target_dir = <<"work", "new">>
    /\ <<"Command failed", "git add .">> \in Range(out)
    /\ repo.initialized
    /\ "git commit" \notin Range(cmds)

\* the files of the template, relative to its root, that are neither
\* excluded themselves nor located under an excluded directory
TemplateFilesToCopy ==
    {SubSeq(p, Len(template_dir) + 1, Len(p)) :
        p \in {q \in DOMAIN InitFiles :
                  /\ IsPrefix(template_dir, q)
                  /\ \A k \in (Len(template_dir) + 1)..Len(q) :
                        ~should_exclude(SubSeq(q, 1, k))}}

\* the files of the target, relative to its root
TargetFiles ==
    {SubSeq(q, Len(target_dir) + 1, Len(q)) :
        q \in FilesUnder([files |-> files, dirs |-> dirs], target_dir)}

\* C12: after copy_template_structure succeeded into an empty target, the
\* target holds exactly the template's files that are neither excluded nor
\* under an excluded directory, each at its relative path with the content
\* it has in the template, and no other file.
C12_CopyRoundTrip ==
    (pc = "rewrite" /\ ~TargetInitiallyNonEmpty) =>
        /\ TargetFiles = TemplateFilesToCopy
        /\ \A rel \in TemplateFilesToCopy :
              files[target_dir \o rel] = InitFiles[template_dir \o rel]

\* the directories named venv and the files named *.pyc of the target tree
VenvDirs ==
    {d \in dirs : IsPrefix(target_dir, d) /\ Len(d) > Len(target_dir)
                     /\ Basename(d) = "venv"}

PycFiles ==
    {f \in DOMAIN files : IsPrefix(target_dir, f) /\ Len(f) > Len(target_dir)
                             /\ EndsWith(Basename(f), <<".pyc">>)}

\* what the installers of the bootstrap step create and fill
InstallerDirs ==
    {target_dir \o <<"backend", "venv">>, target_dir \o <<"frontend", "node_modules">>}

\* C13 as stated: after a successful scaffold (into a new or empty target)
\* the target tree has no directory named venv and no *.pyc file.
C13_NoVenvNoPyc ==
    (pc = "done" /\ exit_code = 0 /\ ~TargetInitiallyNonEmpty) =>
        (VenvDirs = {} /\ PycFiles = {})

\* C13, amended: in a new or empty target nothing that the copy step puts
\* there is a directory named venv or a *.pyc file: there is none until the
\* bootstrap step has run, and after a successful scaffold every venv
\* directory and *.pyc file lies in backend/venv or frontend/node_modules,
\* which the installers of the bootstrap step create.
C13_NoVenvNoPycCopied ==
    (target_dir # <<>> /\ ~TargetInitiallyNonEmpty) =>
        /\ (\A i \in 1..Len(ran) : ran[i][1] # "Setting up development environment")
              => (VenvDirs = {} /\ PycFiles = {})
        /\ \A p \in VenvDirs \cup PycFiles : \E d \in InstallerDirs : IsPrefix(d, p)

\* a successful scaffold into a new directory whose bootstrap step created
\* the virtual environment and installed into it
C13_Witness ==
    /\ pc = "done"
    /\ exit_code = 0
    /\ target_dir = <<"work", "new">>
    /\ VenvDirs = {<<"work", "new", "backend", "venv">>}
    /\ PycFiles # {}

(***************************************************************************)
(* The functions and methods called on their own, as a test of the module  *)
(* calls them: a call is recorded in out with its arguments and with what  *)
(* it returned.                                                            *)
(***************************************************************************)
\* the longest string handed to sanitize_name and validate_project_name
MaxTextLen == 3
\* the longest generated content of a file that is rewritten
MaxContentLen == 3
\* the most rules of a generated rule set
MaxRules == 2

\* the strings handed to sanitize_name, validate_project_name and __init__
Strings == SeqsUpTo(NameAlphabet \cup {"\n"}, MaxTextLen)

\* longer names that mix letters, digits and separators
MixedNames == { <<"a", "1", "-", "1">>, <<"a", "_", "_", "a">>, <<"a", "1", "a", "-", "1", "a">> }

\* names that the grammar accepts and that meet the placeholders of the table
PlaceholderNames ==
    { <<"starter", "-", "webapp">>, <<"starter", "-", "webapp", "1">>,
      <<"a", "-", "starter", "-", "webapp">>, <<"starter", "_", "webapp", "-", "a">>,
      <<"starter">>, <<"webapp">>, <<"web", "-", "app">> }

\* the project names update_file_contents is called with
RewriteNames ==
    { <<"a", "a">>, <<"a", "1">>, <<"a", "-", "1">>, <<"a", "_", "a">> }
        \cup PlaceholderNames

\* the descriptions update_file_contents is called with
RewriteDescriptions ==
    Descriptions \cup {DefaultDescription, <<"starter", "-", "webapp">>}

\* the contents of the file update_file_contents is called on: those of the
\* template's files, and the short texts made of the words of the placeholders
RewriteContents ==
    {InitFiles[template_dir \o template_files[i]] :
        i \in {j \in 1..Len(template_files) :
                  template_dir \o template_files[j] \in DOMAIN InitFiles}}
    \cup SeqsUpTo({"starter", "-", "webapp", "_"}, MaxContentLen)
    \cup { <<"starter", "-", "webapp", "-", "webapp">>,
           <<"starter", "-", "starter", "-", "webapp", "webapp">>,
           <<"starter", "-", "webapp", " ", "starter", "-", "webapp">>,
           <<"starter", "-", "webapp", " ", PlaceholderDescription>>,
           <<"Starter", " ", "Web", " ", "App", " ", "starter", "-", "webapp">> }

\* the names of the entries should_exclude is called on
EntryNames ==
    {"node_modules", "foo.pyc", "readme.md", ".pyc", "main.py", "my.env",
     ".env", "venv", "app.db"}

\* the rules of the generated rule sets
RulePool ==
    { <<"*", ".pyc">>, <<"node_modules">>, <<"*", ".md">>, <<".pyc">>, <<"*">> }

\* the orders in which a rule set may be iterated: every order of a generated
\* rule set, and the rotations of the default rule set and their reverses
RuleOrders ==
    {o \in SeqsUpTo(RulePool, MaxRules) :
        \A i, j \in 1..Len(o) : i # j => o[i] # o[j]}
    \cup LET d == exclude_patterns_order
             n == Len(d)
             rot(k) == [i \in 1..n |-> d[((i + k - 1) % n) + 1]]
         IN  {rot(k) : k \in 0..(n - 1)}
                \cup {[i \in 1..n |-> rot(k)[n + 1 - i]] : k \in 0..(n - 1)}

FunctionsInit ==
    /\ pc = "call"
    /\ exit_code = -1
    /\ exit_at = ""
    /\ traceback = FALSE
    /\ skip_deps = FALSE
    /\ current_branch = <<>>
    /\ environ = <<>>
    /\ project_name = <<>>
    /\ description = <<>>
    /\ target_dir = <<>>
    /\ response = NotAsked
    /\ files = InitFiles
    /\ dirs = InitDirs
    /\ repo = NoRepo
    /\ out = <<>>
    /\ ran = <<>>
    /\ cmds = <<>>

\* the call returns: what it was called with and what it returned
Returned(call) ==
    /\ out' = Append(out, call)
    /\ pc' = "returned"
    /\ UNCHANGED << exit_code, exit_at, traceback, environ, current_branch, skip_deps, response,
                  repo, ran, cmds >>

\* sanitize_name(x), and sanitize_name of its result
CallSanitizeName ==
    /\ pc = "call"
    /\ \E x \in Strings :
        Returned([fn |-> "sanitize_name", arg |-> x,
                  result |-> sanitize_name(x),
                  again |-> sanitize_name(sanitize_name(x))])
    /\ UNCHANGED << project_name, description, target_dir, files, dirs >>

\* validate_project_name(x)
CallValidateProjectName ==
    /\ pc = "call"
    /\ \E x \in Strings :
        Returned([fn |-> "validate_project_name", arg |-> x,
                  result |-> validate_project_name(x)])
    /\ UNCHANGED << project_name, description, target_dir, files, dirs >>

\* ProjectScaffolder(name, ...) for a name validate_project_name accepts:
\* the derived names of lines 86-88
CallInit ==
    /\ pc = "call"
    /\ \E name \in Strings \cup MixedNames :
        /\ validate_project_name(name)
        /\ project_name' = name
        /\ Returned([fn |-> "__init__", arg |-> name,
                     snake_case_name |-> snake_case_name(name),
                     title_case_name |-> title_case_name(name),
                     camel_case_name |-> camel_case_name(name)])
    /\ UNCHANGED << description, target_dir, files, dirs >>

\* should_exclude(path) with self.exclude_patterns iterated in some order
CallShouldExclude ==
    /\ pc = "call"
    /\ \E name \in EntryNames, rules \in RuleOrders :
        Returned([fn |-> "should_exclude", arg |-> name, rules |-> rules,
                  result |-> Matches(NameText(name), rules)])
    /\ UNCHANGED << project_name, description, target_dir, files, dirs >>

\* update_file_contents() on a target that holds package.json, and
\* update_file_contents() again
CallUpdateFileContents ==
    /\ pc = "call"
    /\ \E name \in RewriteNames, desc \in RewriteDescriptions, content \in RewriteContents :
        LET target == <<"work", "new">>
            path   == Append(target, "package.json")
            other  == Append(target, "DEVELOPMENT.md")
        IN  \E fs0 \in {WriteFile(WriteFile(Mkdir([files |-> files, dirs |-> dirs], target),
                                            path, content),
                                  other, content)} :
            \E once \in {RewriteOutcome(fs0, target, name, desc, -1)} :
            \E twice \in {RewriteOutcome(once, target, name, desc, -1)} :
            /\ project_name' = name
            /\ description' = desc
            /\ target_dir' = target
            /\ files' = twice.files
            /\ dirs' = twice.dirs
            /\ Returned([fn |-> "update_file_contents", name |-> name,
                         description |-> desc, content |-> content,
                         once |-> once.files[path], twice |-> twice.files[path],
                         ok |-> once.err = "" /\ twice.err = "",
                         created |-> (DOMAIN once.files \ DOMAIN fs0.files)
                                         \cup (once.dirs \ fs0.dirs),
                         changed |-> {f \in DOMAIN fs0.files :
                                         f \notin DOMAIN once.files
                                         \/ once.files[f] # fs0.files[f]},
                         first   |-> replacements(name, desc)[1][1],
                         matched |-> MatchingEntries(content, replacements(name, desc))])

FunctionsNext ==
    \/ CallSanitizeName
    \/ CallValidateProjectName
    \/ CallInit
    \/ CallShouldExclude
    \/ CallUpdateFileContents

FunctionsSpec == FunctionsInit /\ [][FunctionsNext]_vars

\* the calls of fn that have returned
Calls(fn) == {out[i] : i \in {j \in 1..Len(out) : out[j].fn = fn}}

\* the search texts of the table that can be found when their entry is
\* applied: the last three begin with the first, which is replaced before
PlaceholderTexts ==
    { <<"starter", "-", "webapp">>, <<"starter", "_", "webapp">>,
      <<"Starter", " ", "Web", " ", "App">>, <<PlaceholderDescription>> }

\* text x is empty, or x and s can share characters where they occur: one
\* contains the other, or an end of one is a beginning of the other
Overlaps(x, s) ==
    \/ x = <<>>
    \/ Contains(x, s)
    \/ Contains(s, x)
    \/ \E k \in 1..(IF Len(x) < Len(s) THEN Len(x) ELSE Len(s)) :
          \/ SubSeq(x, Len(x) - k + 1, Len(x)) = SubSeq(s, 1, k)
          \/ SubSeq(s, Len(s) - k + 1, Len(s)) = SubSeq(x, 1, k)

\* none of the texts the table writes for this name and description is
\* empty or overlaps a placeholder
KeepsClearOfPlaceholders(name, desc) ==
    \A x \in {name, snake_case_name(name), title_case_name(name), desc} :
        \A s \in PlaceholderTexts : ~Overlaps(x, s)

\* C14 as stated: for a valid project name and a file whose content contains
\* starter-webapp, after the rewrite the file contains the project name and
\* no longer contains starter-webapp.
C14_PlaceholderReplacedByName ==
    \A c \in Calls("update_file_contents") :
        (validate_project_name(c.name) /\ Contains(c.content, <<"starter", "-", "webapp">>))
        => /\ c.ok
           /\ Contains(c.once, c.name)
           /\ ~Contains(c.once, <<"starter", "-", "webapp">>)

\* C14, amended: for a valid project name and a description such that the
\* name, its identifier form, its title form and the description are not
\* empty and do not overlap a placeholder, and a file whose content contains
\* starter-webapp, after the rewrite the file contains the project name and
\* no longer contains starter-webapp.
C14_PlaceholderReplacedByClearName ==
    \A c \in Calls("update_file_contents") :
        (/\ validate_project_name(c.name)
         /\ KeepsClearOfPlaceholders(c.name, c.description)
         /\ Contains(c.content, <<"starter", "-", "webapp">>))
        => /\ c.ok
           /\ Contains(c.once, c.name)
           /\ ~Contains(c.once, <<"starter", "-", "webapp">>)

\* the rewrite of the template's backend/render.yaml for the name a-1
C14_Witness ==
    /\ pc = "returned"
    /\ \E c \in Calls("update_file_contents") :
          /\ c.name = <<"a", "-", "1">>
          /\ c.description = <<"A blog">>
          /\ c.content = InitFiles[<<"tpl", "backend", "render.yaml">>]
          /\ c.once = <<"a", "-", "1", "-", "backend", "\n", "a", "-", "1", "-", "db">>

\* no replacement's output text contains another entry's search text
TablePrecondition(table) ==
    \A i, j \in 1..Len(table) : i # j => ~Contains(table[i][2], table[j][1])

\* C15 as stated: for every valid project name and every description the
\* table has no output text that contains another entry's search text, and
\* update_file_contents applied twice gives what it gives applied once.
C15_RewriteTwiceIsOnce ==
    \A c \in Calls("update_file_contents") :
        validate_project_name(c.name)
        => /\ TablePrecondition(replacements(c.name, c.description))
           /\ c.twice = c.once

\* C15, amended: for every valid project name and description such that the
\* name, its identifier form, its title form and the description are not
\* empty and do not overlap a placeholder, the table has no output text that
\* contains another entry's search text, and update_file_contents applied
\* twice gives what it gives applied once.
C15_RewriteTwiceIsOnceForClearNames ==
    \A c \in Calls("update_file_contents") :
        (validate_project_name(c.name) /\ KeepsClearOfPlaceholders(c.name, c.description))
        => /\ TablePrecondition(replacements(c.name, c.description))
           /\ c.twice = c.once

\* a content with the placeholder twice, rewritten twice for the name aa
C15_Witness ==
    /\ pc = "returned"
    /\ \E c \in Calls("update_file_contents") :
          /\ c.name = <<"a", "a">>
          /\ c.content = <<"starter", "-", "webapp", " ", "starter", "-", "webapp">>
          /\ c.once = <<"a", "a", " ", "a", "a">>
          /\ c.twice = c.once

\* C16: sanitize_name(sanitize_name(x)) = sanitize_name(x) for every string x.
C16_SanitizeIdempotent ==
    \A c \in Calls("sanitize_name") : c.again = c.result

\* a string that sanitize_name changes: a space, a capital, an underscore
C16_Witness ==
    /\ pc = "returned"
    /\ \E c \in Calls("sanitize_name") :
          /\ c.arg = <<" ", "A", "_">>
          /\ c.result = <<"a">>
          /\ c.again = <<"a">>

\* the ProjectName grammar: lower-case letters, digits, hyphens and
\* underscores only, the first a letter, the last a letter or a digit, at
\* least two characters
ProjectNameGrammar(s) ==
    /\ TextLen(s) >= 2
    /\ \A i \in 1..Len(s) : s[i] \in LowerLetters \cup Digits \cup Separators
    /\ s[1] \in LowerLetters
    /\ s[Len(s)] \in LowerLetters \cup Digits

\* C17: validate_project_name(s) is true exactly when s follows the
\* ProjectName grammar; no string with any other character, a newline at
\* the end included, is accepted.
C17_ValidateIsGrammar ==
    \A c \in Calls("validate_project_name") :
        c.result <=> ProjectNameGrammar(c.arg)

\* the title form as the claim defines it: the separators replaced by
\* spaces, the first character of each word upper-cased, the others unchanged
TitleOfWords(name) ==
    LET spaced == [i \in 1..Len(name) |->
                      IF name[i] \in Separators THEN " " ELSE name[i]]
    IN  [i \in 1..Len(spaced) |->
            IF i = 1 \/ spaced[i - 1] = " " THEN UpperTok(spaced[i]) ELSE spaced[i]]

\* C18: for an accepted name the identifier form is the name with each
\* hyphen replaced by an underscore, the title form is the words of the name
\* capitalized (the rest of each word unchanged) and separated by spaces,
\* and the compact form is the title form without its spaces.
C18_DerivedForms ==
    \A c \in Calls("__init__") :
        /\ c.snake_case_name =
              [i \in 1..Len(c.arg) |-> IF c.arg[i] = "-" THEN "_" ELSE c.arg[i]]
        /\ c.title_case_name = TitleOfWords(c.arg)
        /\ c.camel_case_name = SelectSeq(TitleOfWords(c.arg), LAMBDA t : t # " ")
        /\ SelectSeq(c.title_case_name, LAMBDA t : t # " ") = c.camel_case_name

\* C19: for every string validate_project_name accepts the three derived
\* forms are computed and none of them is empty.
C19_DerivedFormsNotEmpty ==
    \A c \in Calls("__init__") :
        /\ validate_project_name(c.arg)
        /\ TextLen(c.snake_case_name) >= 1
        /\ TextLen(c.title_case_name) >= 1
        /\ TextLen(c.camel_case_name) >= 1

\* the forms of the name a1-1, which mixes digits and separators
C19_Witness ==
    /\ pc = "returned"
    /\ \E c \in Calls("__init__") :
          /\ c.arg = <<"a", "1", "-", "1">>
          /\ c.snake_case_name = <<"a", "1", "_", "1">>
          /\ c.title_case_name = <<"A", "1", " ", "1">>
          /\ c.camel_case_name = <<"A", "1", "1">>

\* C20: should_exclude is true exactly when some rule starts with * and the
\* entry's name ends with the rest of the rule, or equals the name; the
\* order in which the rules are tried does not matter; with the default
\* rules node_modules and foo.pyc are excluded and readme.md is not.
C20_ShouldExcludeIsSomeRule ==
    \A c \in Calls("should_exclude") :
        LET text == NameText(c.arg)
        IN  /\ c.result <=>
                 \E i \in 1..Len(c.rules) :
                    \/ /\ Head(c.rules[i]) = "*"
                       /\ TextEndsWith(text, Tail(c.rules[i]))
                    \/ c.rules[i] = text
            /\ \A o \in RuleOrders :
                 Range(o) = Range(c.rules) => Matches(text, o) = c.result
            /\ Range(c.rules) = exclude_patterns =>
                 /\ c.arg \in {"node_modules", "foo.pyc"} => c.result
                 /\ c.arg = "readme.md" => ~c.result

\* foo.pyc is excluded by the default rules, in an order that does not try
\* *.pyc first
C20_Witness ==
    /\ pc = "returned"
    /\ \E c \in Calls("should_exclude") :
          /\ c.arg = "foo.pyc"
          /\ Range(c.rules) = exclude_patterns
          /\ c.rules[1] # <<"*", ".pyc">>
          /\ c.result

\* C21: a user interrupt at any point of the run (at the prompt for the
\* name, the description or the confirmation, or during the pipeline) is
\* caught at the top level: the process exits with 1 and without a stack
\* trace.
C21_InterruptCaughtAtTopLevel ==
    exit_at \in {"uncaught KeyboardInterrupt", "except KeyboardInterrupt"}
    => (exit_code = 1 /\ ~traceback)

\* the files under the target that the run has created or changed
WrittenUnderTarget ==
    {f \in DOMAIN files :
        /\ IsPrefix(target_dir, f)
        /\ Len(f) > Len(target_dir)
        /\ (f \notin DOMAIN InitFiles \/ files[f] # InitFiles[f])}

\* C24: when the copy step is the only step that has run, no file it
\* created or changed under the target has a name that matches a rule
\* (scaffold.py among them) or lies below a directory whose name matches a
\* rule, at any depth.
C24_CopyExcludesAtEveryDepth ==
    (Len(ran) = 1 /\ ran[1][1] = "Copying template structure") =>
        \A f \in WrittenUnderTarget :
            \A k \in (Len(target_dir) + 1)..Len(f) : ~should_exclude(SubSeq(f, 1, k))

\* a copy into a new directory: backend/app/main.py is there, main.pyc, the
\* files of venv and node_modules and scaffold.py are not
C24_Witness ==
    /\ pc = "rewrite"
    /\ target_dir = <<"work", "new">>
    /\ <<"work", "new", "backend", "app", "main.py">> \in DOMAIN files
    /\ <<"work", "new", "scaffold.py">> \notin DOMAIN files
    /\ <<"work", "new", "backend", "venv">> \notin dirs
    /\ <<"work", "new", "frontend", "node_modules">> \notin dirs

\* in a target that was new or empty, after the bootstrap step: the
\* installer command ran and what it creates is not there
InstallerFailed(command, created) ==
    /\ ~TargetInitiallyNonEmpty
    /\ command \in Range(cmds)
    /\ target_dir \o created \notin dirs

\* C26: when the creation of the virtual environment, pip install or npm
\* install exits with a non-zero status, the bootstrap step logs the failure
\* warning of that command and does not log that the dependencies were
\* installed.
C26_InstallerFailureIsLogged ==
    /\ InstallerFailed("python -m venv venv", <<"backend", "venv">>) =>
          /\ <<"Virtual environment creation failed">> \in Range(out)
          /\ <<"Backend dependencies installed">> \notin Range(out)
    /\ InstallerFailed("pip install", <<"backend", "venv", "lib">>) =>
          <<"Backend dependencies installed">> \notin Range(out)
    /\ InstallerFailed("npm install", <<"frontend", "node_modules">>) =>
          /\ <<"Frontend dependency installation failed">> \in Range(out)
          /\ <<"Frontend dependencies installed">> \notin Range(out)

\* C27: the name is replaced by its sanitized form, the sanitized form is
\* what validate_project_name is applied to, a change is shown before the
\* rejection and before anything on the machine changes, and the name that
\* reaches the scaffolder is sanitized and accepted.
C27_SanitizedNameIsValidated ==
    [][/\ pc = "sanitize" =>
            /\ project_name' = sanitize_name(project_name)
            /\ validate_project_name(project_name') <=> pc' = "describe"
            /\ ~validate_project_name(project_name') =>
                  (pc' = "done" /\ exit_at' = "invalid name")
            /\ project_name' # project_name =>
                  /\ Len(out') > Len(out)
                  /\ out'[Len(out) + 1] = <<"Project name sanitized">>
            /\ project_name' = project_name =>
                  <<"Project name sanitized">> \notin Range(out')
            /\ NothingDone'
       /\ pc \notin {"main", "sanitize"} => project_name' = project_name
       /\ pc' \notin {"main", "sanitize", "done"} =>
            /\ validate_project_name(project_name')
            /\ sanitize_name(project_name') = project_name'
      ]_vars

\* the name A1 was sanitized to a1, the change was shown, and the run went on
C27_Witness ==
    /\ pc = "scaffold"
    /\ project_name = <<"a", "1">>
    /\ <<"Project name sanitized">> \in Range(out)

\* the files of the commits
Committed == UNION {DOMAIN repo.commits[i] : i \in 1..Len(repo.commits)}

\* C29 as it is stated: the only commit is the one of the git step, made
\* before the bootstrap and summary steps: it holds neither
\* PROJECT_SUMMARY.md nor a .env file, no later step stages or commits
\* anything, and after a successful scaffold the repository has exactly that
\* one commit.
C29_OnlyTheInitialCommit ==
    /\ Len(repo.commits) <= 1
    /\ repo.commits # <<>> =>
          /\ Len(ran) >= 3
          /\ ran[3] = <<"Initializing git repository", "ok">>
          /\ repo.index = repo.commits[1]
    /\ \A f \in Committed : Basename(f) \notin {"PROJECT_SUMMARY.md", ".env"}
    /\ (pc = "done" /\ exit_code = 0) =>
          /\ Len(repo.commits) = 1
          /\ Append(target_dir, ".gitignore") \in Committed

\* C29, amended: in a target that was new or empty, the only commit is the
\* one of the git step, made before the bootstrap and summary steps: it
\* holds neither PROJECT_SUMMARY.md nor a .env file, no later step stages or
\* commits anything, and after a successful scaffold the repository has
\* exactly that one commit.
C29_OnlyTheInitialCommitInNewTarget ==
    ~TargetInitiallyNonEmpty => C29_OnlyTheInitialCommit

\* a successful scaffold: the summary and the .env files are there and the
\* one commit does not hold them
C29_Witness ==
    /\ pc = "done"
    /\ exit_code = 0
    /\ target_dir = <<"work", "new">>
    /\ Append(target_dir, "PROJECT_SUMMARY.md") \in DOMAIN files
    /\ target_dir \o <<"backend", ".env">> \in DOMAIN files
    /\ Len(repo.commits) = 1
    /\ target_dir \o <<"README.md">> \in Committed

\* C25: update_file_contents changes no file but those of template_files
\* under the target (a file of another name with the same content keeps
\* it), creates no file or directory, so that a listed file that does not
\* exist is not created, and the absence of listed files does not make it
\* fail.
C25_RewriteTouchesListedFilesOnly ==
    \A c \in Calls("update_file_contents") :
        /\ c.ok
        /\ c.created = {}
        /\ c.changed \subseteq
              {<<"work", "new">> \o template_files[i] : i \in 1..Len(template_files)}
        /\ \A f \in DOMAIN InitFiles : f \in DOMAIN files /\ files[f] = InitFiles[f]
        /\ files[<<"work", "new", "DEVELOPMENT.md">>] = c.content

\* package.json was rewritten, DEVELOPMENT.md with the same content was not,
\* and the listed README.md, which the target does not have, was not created
C25_Witness ==
    /\ pc = "returned"
    /\ \E c \in Calls("update_file_contents") :
          /\ c.ok
          /\ c.content = <<"starter", "-", "webapp">>
          /\ c.name = <<"a", "a">>
          /\ c.changed = {<<"work", "new", "package.json">>}
          /\ files[<<"work", "new", "package.json">>] = <<"a", "a">>
          /\ files[<<"work", "new", "DEVELOPMENT.md">>] = <<"starter", "-", "webapp">>
          /\ <<"work", "new", "README.md">> \notin DOMAIN files

\* the search texts of the three entries for the frontend, the backend and
\* the database
LongEntries ==
    { <<"starter", "-", "webapp", "-", "frontend">>,
      <<"starter", "-", "webapp", "-", "backend">>,
      <<"starter", "-", "webapp", "-", "db">> }

\* the table without the three long entries
ShortTable(name, desc) ==
    << << <<"starter", "-", "webapp">>, name >>,
       << <<"starter", "_", "webapp">>, snake_case_name(name) >>,
       << <<"Starter", " ", "Web", " ", "App">>, title_case_name(name) >>,
       << <<PlaceholderDescription>>, desc >> >>

\* C30 as stated: the entry of starter-webapp is applied first, the entries
\* starter-webapp-frontend, starter-webapp-backend and starter-webapp-db
\* never match, and for every valid project name the rewrite gives what the
\* table without these three entries gives.
C30_LongEntriesNeverMatch ==
    \A c \in Calls("update_file_contents") :
        validate_project_name(c.name)
        => /\ c.first = <<"starter", "-", "webapp">>
           /\ c.matched \cap LongEntries = {}
           /\ c.once = ApplyReplacements(c.content, ShortTable(c.name, c.description))

\* C30, amended: the entry of starter-webapp is applied first, and for every
\* valid project name and description such that the name, its identifier
\* form, its title form and the description are not empty and do not overlap
\* a placeholder, the entries starter-webapp-frontend, starter-webapp-backend
\* and starter-webapp-db never match and the rewrite gives what the table
\* without these three entries gives.
C30_LongEntriesNeverMatchForClearNames ==
    \A c \in Calls("update_file_contents") :
        (validate_project_name(c.name) /\ KeepsClearOfPlaceholders(c.name, c.description))
        => /\ c.first = <<"starter", "-", "webapp">>
           /\ c.matched \cap LongEntries = {}
           /\ c.once = ApplyReplacements(c.content, ShortTable(c.name, c.description))

\* the template's frontend/package.json rewritten for the name a-1:
\* starter-webapp-frontend became a-1-frontend through the first entry alone
C30_Witness ==
    /\ pc = "returned"
    /\ \E c \in Calls("update_file_contents") :
          /\ c.name = <<"a", "-", "1">>
          /\ c.description = <<"A blog">>
          /\ c.content = <<"starter", "-", "webapp", "-", "frontend">>
          /\ c.matched = {<<"starter", "-", "webapp">>}
          /\ c.once = <<"a", "-", "1", "-", "frontend">>

(***************************************************************************)
(* scripts/delete-current-branch.py.                                       *)
(*                                                                         *)
(* A branch name and a commit message are texts.  The repository is a      *)
(* record: whether the working directory is a repository, the local        *)
(* branches (heads), the checked-out branch (active; Detached when HEAD is *)
(* detached), whether there are uncommitted changes (dirty), the names of  *)
(* the refs of the remote origin (refs), the number of commits of the      *)
(* active branch that main does not reach (ahead), and the messages of the *)
(* commits of main, the most recent first (main_log).                      *)
(***************************************************************************)
\* the most commits a branch is ahead of main
MaxAhead == 1
\* the most answers the prompt does not recognise in one run
MaxPrompts == 2

main_branch == <<"main">>

\* the branches a run starts on, main apart
BranchNames ==
    { <<"x">>, <<"f", "/", "x">>, <<"HEAD", "-", "x">>, <<"origin", "/", "x">> }

\* repo.active_branch raises
Detached == <<"detached HEAD">>

\* the name of the ref of origin for branch b
RemoteRef(b) == <<"origin", "/">> \o b

\* the message of the commit of a squash merge of x, and another message
MergeMessage == <<"Merge", " ", "x">>
OtherMessage == <<"init">>

\* max_count of the commits of main that are looked at
RecentCount == 10

\* a history of main with the merge message at position p (nowhere if p = 0)
MainLog(p) ==
    [i \in 1..(RecentCount + 1) |-> IF i = p THEN MergeMessage ELSE OtherMessage]

\* where the merge message is in the history: nowhere, first, last of the
\* recent commits, first of the older ones
MergePositions == {0, 1, RecentCount, RecentCount + 1}

NotARepository ==
    [is_repo |-> FALSE, heads |-> {}, active |-> Detached, dirty |-> FALSE,
     refs |-> {}, ahead |-> 0, main_log |-> <<>>]

\* what the user types at "Delete branch ...? (Y/n):"
DeleteAnswers ==
    { <<"y">>, <<"Y">>, <<"y", "e", "s">>, <<>>, <<" ">>, <<"n">>, <<"N">>,
      <<"n", "o">>, <<"a">>, EOFError, KeyboardInterrupt }

DeleteInit ==
    /\ pc = "main"
    /\ exit_code = -1
    /\ exit_at = ""
    /\ traceback = FALSE
    /\ skip_deps = FALSE
    /\ current_branch = <<>>
    /\ environ = <<>>
    /\ project_name = <<>>
    /\ description = <<>>
    /\ target_dir = <<>>
    /\ response = NotAsked
    /\ files = InitFiles
    /\ dirs = InitDirs
    /\ out = <<>>
    /\ ran = <<>>
    /\ cmds = <<>>
    /\ \/ repo = NotARepository
       \/ \E a \in BranchNames \cup {main_branch, Detached}, has_main, d \in BOOLEAN,
             n \in 0..MaxAhead, p \in MergePositions :
            \E rs \in SUBSET {RemoteRef(b) : b \in ({a} \ {main_branch, Detached})
                                                   \cup {<<"origin", "/", "x">>}} :
               /\ a = main_branch => has_main
               /\ repo = [is_repo |-> TRUE,
                          heads |-> ({a} \ {Detached})
                                       \cup (IF has_main THEN {main_branch} ELSE {}),
                          active |-> a,
                          dirty |-> d,
                          refs |-> {RemoteRef(<<"HEAD">>), RemoteRef(main_branch)} \cup rs,
                          ahead |-> IF a \in BranchNames THEN n ELSE 0,
                          main_log |-> MainLog(p)]

\* what a run of delete-current-branch.py leaves alone
scaffoldvars == << environ, skip_deps, project_name, description, target_dir, files, dirs >>

\* lines 153-167: the repository is opened and the current branch is read
GetCurrentBranch ==
    /\ pc = "main"
    /\ IF ~repo.is_repo
       THEN /\ out' = Append(out, <<"Error: Could not access repository">>)
            /\ Exit(1, "no repository", FALSE)
            /\ UNCHANGED current_branch
       ELSE IF repo.active = Detached
       THEN /\ out' = Append(out, <<"Error: Could not get current branch">>)
            /\ Exit(1, "no current branch", FALSE)
            /\ UNCHANGED current_branch
       ELSE /\ current_branch' = repo.active
            /\ out' = Append(out, <<"Current branch">>)
            /\ pc' = "safety"
            /\ Running
    /\ UNCHANGED << scaffoldvars, response, repo, ran, cmds >>

\* a faulty variant of SafetyChecks: uncommitted changes are not looked for
SafetyChecks_without_dirty_check ==
    /\ pc = "safety"
    /\ IF current_branch = main_branch
       THEN /\ out' = Append(out, <<"Error: Cannot delete the main branch!">>)
            /\ Exit(1, "main branch", FALSE)
            /\ ran' = ran
       ELSE /\ out' = out
            /\ ran' = Append(ran, [step |-> "safety checks", ok |-> TRUE])
            /\ pc' = "pull"
            /\ Running
    /\ UNCHANGED << scaffoldvars, current_branch, response, repo, cmds >>

\* lines 169-177: main is not deleted, and nothing is done with uncommitted
\* changes
SafetyChecks ==
    /\ pc = "safety"
    /\ IF current_branch = main_branch
       THEN /\ out' = Append(out, <<"Error: Cannot delete the main branch!">>)
            /\ Exit(1, "main branch", FALSE)
            /\ ran' = ran
       ELSE IF repo.dirty
       THEN /\ out' = Append(out, <<"Error: You have uncommitted changes">>)
            /\ Exit(1, "uncommitted changes", FALSE)
            /\ ran' = ran
       ELSE /\ out' = out
            /\ ran' = Append(ran, [step |-> "safety checks", ok |-> TRUE])
            /\ pc' = "pull"
            /\ Running
    /\ UNCHANGED << scaffoldvars, current_branch, response, repo, cmds >>

\* pull_main, lines 40-64, and lines 180-182: fetch, check that main exists
\* locally, check it out and pull; any error ends the run.  The pull brings
\* no commit or the commit of a squash merge.
PullMain ==
    /\ pc = "pull"
    /\ \E failed \in {"none", "fetch", "checkout", "pull"},
          pulled \in {<<>>, <<MergeMessage>>} :
        LET no_main == main_branch \notin repo.heads
            calls == IF failed = "fetch" THEN << <<"fetch">> >>
                     ELSE IF no_main THEN << <<"fetch">> >>
                     ELSE IF failed = "checkout"
                          THEN << <<"fetch">>, <<"checkout", main_branch>> >>
                     ELSE << <<"fetch">>, <<"checkout", main_branch>>, <<"pull", main_branch>> >>
            on_main == failed \in {"none", "pull"} /\ ~no_main
            ok == failed = "none" /\ ~no_main
        IN  /\ cmds' = cmds \o calls
            /\ repo' = [repo EXCEPT
                          !.active = IF on_main THEN main_branch ELSE @,
                          !.main_log = IF ok
                                       THEN SubSeq(pulled \o @, 1, Len(@))
                                       ELSE @]
            /\ ran' = Append(ran, [step |-> "pull_main", ok |-> ok])
            /\ IF ok
               THEN /\ out' = out \o << <<"Pulling latest changes from main...">>,
                                        <<"Successfully pulled latest changes from main">> >>
                    /\ pc' = "switch back"
                    /\ Running
               ELSE /\ out' = out \o << <<"Pulling latest changes from main...">>,
                                        (IF failed # "fetch" /\ no_main
                                         THEN <<"Error: 'main' branch not found locally">>
                                         ELSE <<"Error pulling main">>),
                                        <<"Failed to pull latest changes from main. Aborting.">> >>
                    /\ Exit(1, "pull failed", FALSE)
    /\ UNCHANGED << scaffoldvars, current_branch, response >>

\* lines 184-191: the branch to delete is checked out again
SwitchBack ==
    /\ pc = "switch back"
    /\ cmds' = Append(cmds, <<"checkout", current_branch>>)
    /\ \E raised \in BOOLEAN :
        /\ ran' = Append(ran, [step |-> "switch back", ok |-> ~raised])
        /\ IF raised
           THEN /\ out' = Append(out, <<"Error switching back to branch">>)
                /\ Exit(1, "switch back failed", FALSE)
                /\ repo' = repo
           ELSE /\ out' = Append(out, <<"Switched back for merge verification">>)
                /\ repo' = [repo EXCEPT !.active = current_branch]
                /\ pc' = "check"
                /\ Running
    /\ UNCHANGED << scaffoldvars, current_branch, response >>

\* line 73: the names of the refs of origin without 'HEAD' in them, with
\* every 'origin/' of them removed
remote_branches(r) ==
    {Replace(ref, <<"origin", "/">>, <<>>) :
        ref \in {x \in r.refs : ~Contains(x, <<"HEAD">>)}}

\* branch_name.split('/')[-1]
LastPart(branch_name) ==
    LET parts == Split(branch_name, "/") IN parts[Len(parts)]

\* lines 91-96: whether one of the max_count most recent messages of main,
\* lower-cased, holds the branch name with '-' for '/' or its last part
branch_mentioned_in_main(r, branch_name) ==
    \E i \in 1..(IF Len(r.main_log) < RecentCount THEN Len(r.main_log) ELSE RecentCount) :
        \/ Contains(Lower(r.main_log[i]), Replace(branch_name, <<"/">>, <<"-">>))
        \/ Contains(Lower(r.main_log[i]), LastPart(branch_name))

\* check_merge_status, lines 66-106: the pair it returns
check_merge_status(r, branch_name, raises) ==
    IF raises
    THEN [merged |-> FALSE, message |-> "Could not check merge status"]
    ELSE IF r.ahead = 0
    THEN [merged |-> TRUE, message |-> "Branch has no commits ahead of main (safe to delete)"]
    ELSE IF branch_name \notin remote_branches(r)
    THEN [merged |-> TRUE, message |-> "Remote branch deleted (likely squash merged)"]
    ELSE IF branch_mentioned_in_main(r, branch_name)
    THEN [merged |-> TRUE, message |-> "Branch likely squash merged"]
    ELSE [merged |-> FALSE, message |-> "Branch has unmerged commits and remote branch exists"]

\* a faulty variant of CheckMergeStatus: a branch that is not merged is
\* reported, and the run goes on
CheckMergeStatus_goes_on ==
    /\ pc = "check"
    /\ \E raises \in BOOLEAN :
        LET status == check_merge_status(repo, current_branch, raises)
        IN  /\ ran' = Append(ran, [step |-> "check_merge_status",
                                   branch |-> current_branch, refs |-> repo.refs,
                                   ahead |-> repo.ahead, main_log |-> repo.main_log,
                                   raised |-> raises, ok |-> status.merged])
            /\ out' = out \o << <<"=== Merge Status Check ===">>, <<status.message>> >>
            /\ pc' = "to main"
            /\ Running
    /\ UNCHANGED << scaffoldvars, current_branch, response, repo, cmds >>

\* lines 193-206: the merge status is checked, and a branch that is not
\* merged ends the run
CheckMergeStatus ==
    /\ pc = "check"
    /\ \E raises \in BOOLEAN :
        LET status == check_merge_status(repo, current_branch, raises)
        IN  /\ ran' = Append(ran, [step |-> "check_merge_status",
                                   branch |-> current_branch, refs |-> repo.refs,
                                   ahead |-> repo.ahead, main_log |-> repo.main_log,
                                   raised |-> raises, ok |-> status.merged])
            /\ IF status.merged
               THEN /\ out' = out \o << <<"=== Merge Status Check ===">>, <<status.message>>,
                                        <<"has been merged to main and is safe to delete">> >>
                    /\ pc' = "to main"
                    /\ Running
               ELSE /\ out' = out \o << <<"=== Merge Status Check ===">>, <<status.message>>,
                                        <<"has NOT been merged to main!">> >>
                    /\ Exit(1, "not merged", FALSE)
    /\ UNCHANGED << scaffoldvars, current_branch, response, repo, cmds >>

\* a faulty variant of SwitchToMain: the checkout of main has no effect
SwitchToMain_without_checkout ==
    /\ pc = "to main"
    /\ cmds' = Append(cmds, <<"checkout", main_branch>>)
    /\ \E raised \in BOOLEAN :
        /\ ran' = Append(ran, [step |-> "switch to main", ok |-> ~raised])
        /\ IF raised
           THEN /\ out' = Append(out, <<"Error switching to main">>)
                /\ Exit(1, "switch to main failed", FALSE)
                /\ repo' = repo
           ELSE /\ out' = Append(out, <<"Switched to main branch">>)
                /\ repo' = repo
                /\ pc' = "prompt"
                /\ Running
    /\ UNCHANGED << scaffoldvars, current_branch, response >>

\* lines 208-214: main is checked out before the deletion
SwitchToMain ==
    /\ pc = "to main"
    /\ cmds' = Append(cmds, <<"checkout", main_branch>>)
    /\ \E raised \in BOOLEAN :
        /\ ran' = Append(ran, [step |-> "switch to main", ok |-> ~raised])
        /\ IF raised
           THEN /\ out' = Append(out, <<"Error switching to main">>)
                /\ Exit(1, "switch to main failed", FALSE)
                /\ repo' = repo
           ELSE /\ out' = Append(out, <<"Switched to main branch">>)
                /\ repo' = [repo EXCEPT !.active = main_branch]
                /\ pc' = "prompt"
                /\ Running
    /\ UNCHANGED << scaffoldvars, current_branch, response >>

\* the answers the prompt did not recognise so far
Reprompts == Cardinality({i \in 1..Len(ran) : ran[i].step = "prompt" /\ ~ran[i].ok})

\* a faulty variant of DeleteBranchInteractive: an answer that is not
\* recognised cancels the deletion
DeleteBranchInteractive_cancels_on_other_answers ==
    /\ pc = "prompt"
    /\ \E typed \in DeleteAnswers, delete_raised, push_raised \in BOOLEAN :
        /\ response' = typed
        /\ IF typed = EOFError
           THEN /\ Exit(1, "uncaught EOFError", TRUE)
                /\ UNCHANGED << repo, out, ran, cmds >>
           ELSE IF typed = KeyboardInterrupt
           THEN /\ \E code \in {1, 130} : Exit(code, "uncaught KeyboardInterrupt", TRUE)
                /\ UNCHANGED << repo, out, ran, cmds >>
           ELSE LET answer == Lower(Strip(typed, Whitespace))
                IN  IF answer \in {<<"y">>, <<"y", "e", "s">>, <<>>}
                    THEN /\ ran' = Append(ran, [step |-> "prompt", ok |-> TRUE,
                                                answer |-> answer])
                         /\ IF delete_raised
                            THEN /\ cmds' = Append(cmds, <<"delete_head", current_branch>>)
                                 /\ repo' = repo
                                 /\ out' = out \o << <<"Error deleting branch">>,
                                                     <<"was not deleted.">> >>
                                 /\ Exit(0, "not deleted", FALSE)
                            ELSE /\ cmds' = cmds \o << <<"delete_head", current_branch>>,
                                                      <<"push", <<":">> \o current_branch>> >>
                                 /\ repo' = [repo EXCEPT
                                               !.heads = @ \ {current_branch},
                                               !.refs = IF push_raised THEN @
                                                        ELSE @ \ {RemoteRef(current_branch)}]
                                 /\ out' = out \o << <<"Successfully deleted branch">>,
                                                     (IF push_raised
                                                      THEN <<"Note: Could not delete remote branch">>
                                                      ELSE <<"Successfully deleted remote branch">>),
                                                     <<"Branch cleanup completed successfully!">> >>
                                 /\ Exit(0, "deleted", FALSE)
                    ELSE IF answer \in {<<"n">>, <<"n", "o">>}
                    THEN /\ ran' = Append(ran, [step |-> "prompt", ok |-> TRUE,
                                                answer |-> answer])
                         /\ out' = out \o << <<"Branch deletion cancelled.">>,
                                             <<"was not deleted.">> >>
                         /\ Exit(0, "not deleted", FALSE)
                         /\ UNCHANGED << repo, cmds >>
                    ELSE /\ Reprompts < MaxPrompts
                         /\ ran' = Append(ran, [step |-> "prompt", ok |-> FALSE,
                                                answer |-> answer])
                         /\ out' = out \o << <<"Branch deletion cancelled.">>,
                                             <<"was not deleted.">> >>
                         /\ Exit(0, "not deleted", FALSE)
                         /\ UNCHANGED << repo, cmds >>
    /\ UNCHANGED << scaffoldvars, current_branch >>

\* delete_branch_interactive, lines 108-140, one turn of its loop, and the
\* end of main, lines 216-221, when it returns: the answer is read; y, yes
\* or nothing deletes the branch and then tries to delete the remote one,
\* n or no cancels, anything else asks again
DeleteBranchInteractive ==
    /\ pc = "prompt"
    /\ \E typed \in DeleteAnswers, delete_raised, push_raised \in BOOLEAN :
        /\ response' = typed
        /\ IF typed = EOFError
           THEN /\ Exit(1, "uncaught EOFError", TRUE)
                /\ UNCHANGED << repo, out, ran, cmds >>
           ELSE IF typed = KeyboardInterrupt
           THEN /\ \E code \in {1, 130} : Exit(code, "uncaught KeyboardInterrupt", TRUE)
                /\ UNCHANGED << repo, out, ran, cmds >>
           ELSE LET answer == Lower(Strip(typed, Whitespace))
                IN  IF answer \in {<<"y">>, <<"y", "e", "s">>, <<>>}
                    THEN /\ ran' = Append(ran, [step |-> "prompt", ok |-> TRUE,
                                                answer |-> answer])
                         /\ IF delete_raised
                            THEN /\ cmds' = Append(cmds, <<"delete_head", current_branch>>)
                                 /\ repo' = repo
                                 /\ out' = out \o << <<"Error deleting branch">>,
                                                     <<"was not deleted.">> >>
                                 /\ Exit(0, "not deleted", FALSE)
                            ELSE /\ cmds' = cmds \o << <<"delete_head", current_branch>>,
                                                      <<"push", <<":">> \o current_branch>> >>
                                 /\ repo' = [repo EXCEPT
                                               !.heads = @ \ {current_branch},
                                               !.refs = IF push_raised THEN @
                                                        ELSE @ \ {RemoteRef(current_branch)}]
                                 /\ out' = out \o << <<"Successfully deleted branch">>,
                                                     (IF push_raised
                                                      THEN <<"Note: Could not delete remote branch">>
                                                      ELSE <<"Successfully deleted remote branch">>),
                                                     <<"Branch cleanup completed successfully!">> >>
                                 /\ Exit(0, "deleted", FALSE)
                    ELSE IF answer \in {<<"n">>, <<"n", "o">>}
                    THEN /\ ran' = Append(ran, [step |-> "prompt", ok |-> TRUE,
                                                answer |-> answer])
                         /\ out' = out \o << <<"Branch deletion cancelled.">>,
                                             <<"was not deleted.">> >>
                         /\ Exit(0, "not deleted", FALSE)
                         /\ UNCHANGED << repo, cmds >>
                    ELSE /\ Reprompts < MaxPrompts
                         /\ ran' = Append(ran, [step |-> "prompt", ok |-> FALSE,
                                                answer |-> answer])
                         /\ out' = Append(out, <<"Please enter 'Y' for yes or 'n' for no.">>)
                         /\ pc' = "prompt"
                         /\ Running
                         /\ UNCHANGED << repo, cmds >>
    /\ UNCHANGED << scaffoldvars, current_branch >>

DeleteNext ==
    \/ GetCurrentBranch
    \/ SafetyChecks
    \/ PullMain
    \/ SwitchBack
    \/ CheckMergeStatus
    \/ SwitchToMain
    \/ DeleteBranchInteractive

DeleteSpec == DeleteInit /\ [][DeleteNext]_vars

\* the calls of repo.delete_head
DeleteHeadCalls == {i \in 1..Len(cmds) : cmds[i][1] = "delete_head"}

OnMainOrDirty ==
    \/ repo.dirty
    \/ current_branch = main_branch
    \/ (pc = "main" /\ repo.active = main_branch)

\* C23: when the current branch is main or there are uncommitted changes,
\* every step of the run leaves the repository as it is (checked-out branch
\* and refs included) and calls no operation on it (no fetch, pull, checkout
\* or deletion), and the run ends with the exit code 1 right after the
\* current branch was read.
C23_NoOperationOnMainOrDirty ==
    [][OnMainOrDirty =>
          /\ repo' = repo
          /\ cmds' = <<>>
          /\ \/ pc = "main" /\ pc' = "safety"
             \/ pc' = "done" /\ exit_code' = 1
      ]_vars

\* a run on the branch x with uncommitted changes has ended
C23_Witness ==
    /\ pc = "done"
    /\ exit_code = 1
    /\ exit_at = "uncommitted changes"
    /\ current_branch = <<"x">>
    /\ repo.dirty
    /\ repo.active = <<"x">>
    /\ cmds = <<>>

\* one of the RecentCount most recent messages, lower-cased, mentions the
\* branch name with '-' for '/' or its last path segment
MentionedInRecentMain(log, branch) ==
    \E i \in 1..Len(log) :
        /\ i <= RecentCount
        /\ \/ Contains(Lower(log[i]), Replace(branch, <<"/">>, <<"-">>))
           \/ Contains(Lower(log[i]), LastPart(branch))

\* C28: check_merge_status reports not merged exactly when the check raises,
\* or the branch has a commit that main does not reach, the remote branch of
\* the same name exists, and none of the 10 most recent commits of main
\* mentions the branch.
C28_NotMergedIff ==
    \A k \in 1..Len(ran) :
        ran[k].step = "check_merge_status" =>
            (~ran[k].ok <=>
                \/ ran[k].raised
                \/ /\ ran[k].ahead >= 1
                   /\ RemoteRef(ran[k].branch) \in ran[k].refs
                   /\ ~MentionedInRecentMain(ran[k].main_log, ran[k].branch))

\* the run has ended and had read its current branch
Terminated == pc = "done" /\ current_branch # <<>>

\* the branch the run started on is no longer among the local branches
BranchDeleted == current_branch \notin repo.heads

\* C31 as it is stated: a run that ends without deleting the branch leaves
\* the repository on the branch it started on, and a run that deletes the
\* branch leaves it on main.
C31_LeftOnStartingBranch ==
    Terminated =>
        repo.active = (IF BranchDeleted THEN main_branch ELSE current_branch)

\* the step of that name has been passed with success
Passed(step) == \E k \in 1..Len(ran) : ran[k].step = step /\ ran[k].ok

\* the run ended with main checked out by pull_main, or by the switch to
\* main, and the branch not checked out again since
EndedAfterCheckoutOfMain ==
    /\ <<"pull", main_branch>> \in Range(cmds)
    /\ Passed("switch back") => Passed("switch to main")

\* C31, amended: a run that ends without deleting the branch leaves the
\* repository on the branch it started on when it ended before pull_main
\* checked out main, or after the switch back to the branch and before the
\* checkout of main that precedes the prompt; every other run that ends
\* without deleting the branch, and every run that deletes it, leaves the
\* repository on main.
C31_LeftOnStartingBranchOrMain ==
    Terminated =>
        /\ repo.active = (IF EndedAfterCheckoutOfMain THEN main_branch ELSE current_branch)
        /\ BranchDeleted => EndedAfterCheckoutOfMain
        /\ exit_at \in {"main branch", "uncommitted changes", "not merged",
                        "switch to main failed"} => repo.active = current_branch
        /\ exit_at \in {"switch back failed", "not deleted", "deleted",
                        "uncaught EOFError", "uncaught KeyboardInterrupt"}
              => repo.active = main_branch

\* the user answered n on the branch x: the branch is there, main is checked
\* out
C31_Witness ==
    /\ Terminated
    /\ exit_at = "not deleted"
    /\ response = <<"n">>
    /\ current_branch = <<"x">>
    /\ ~BranchDeleted
    /\ repo.active = main_branch

\* the answers delete_branch_interactive recognises, after strip() and lower()
YesAnswers == {<<"y">>, <<"y", "e", "s">>, <<>>}
NoAnswers  == {<<"n">>, <<"n", "o">>}

\* C32 as it is stated: at the prompt, an answer other than y, yes, n, no or
\* the empty line deletes nothing and the prompt is asked again; the function
\* returns only after one of these answers; on n or no it returns False and
\* nothing is deleted; and when the local branch was deleted the success is
\* reported whether or not the remote branch could be deleted.
C32_PromptUntilListedAnswer ==
    [][(pc = "prompt" /\ response' \notin {EOFError, KeyboardInterrupt}) =>
          LET answer == response'
          IN  /\ answer \notin YesAnswers \cup NoAnswers =>
                    /\ pc' = "prompt"
                    /\ repo' = repo
                    /\ cmds' = cmds
                    /\ out' = Append(out, <<"Please enter 'Y' for yes or 'n' for no.">>)
              /\ pc' = "done" => answer \in YesAnswers \cup NoAnswers
              /\ answer \in NoAnswers =>
                    /\ pc' = "done"
                    /\ exit_at' = "not deleted"
                    /\ repo' = repo
                    /\ cmds' = cmds
              /\ current_branch \notin repo'.heads =>
                    /\ answer \in YesAnswers
                    /\ exit_at' = "deleted"
                    /\ <<"Branch cleanup completed successfully!">> \in Range(out')
      ]_vars

\* C32, amended: at the prompt, an answer that, with the white space around
\* it removed and in lower case, is other than y, yes, n, no or empty deletes
\* nothing and the prompt is asked again; the function returns only after a
\* recognised answer; on n or no it returns False and nothing is deleted;
\* and when the local branch was deleted the success is reported whether or
\* not the remote branch could be deleted.
C32_PromptUntilRecognised ==
    [][(pc = "prompt" /\ response' \notin {EOFError, KeyboardInterrupt}) =>
          LET answer == Lower(Strip(response', Whitespace))
          IN  /\ answer \notin YesAnswers \cup NoAnswers =>
                    /\ pc' = "prompt"
                    /\ repo' = repo
                    /\ cmds' = cmds
                    /\ out' = Append(out, <<"Please enter 'Y' for yes or 'n' for no.">>)
              /\ pc' = "done" => answer \in YesAnswers \cup NoAnswers
              /\ answer \in NoAnswers =>
                    /\ pc' = "done"
                    /\ exit_at' = "not deleted"
                    /\ repo' = repo
                    /\ cmds' = cmds
              /\ current_branch \notin repo'.heads =>
                    /\ answer \in YesAnswers
                    /\ exit_at' = "deleted"
                    /\ <<"Branch cleanup completed successfully!">> \in Range(out')
      ]_vars

\* after an answer that was not recognised the user answered Y, the branch
\* was deleted, the remote branch could not be, and success was reported
C32_Witness ==
    /\ pc = "done"
    /\ exit_at = "deleted"
    /\ response = <<"Y">>
    /\ Reprompts >= 1
    /\ current_branch \notin repo.heads
    /\ RemoteRef(current_branch) \in repo.refs
    /\ <<"Note: Could not delete remote branch">> \in Range(out)
    /\ <<"Branch cleanup completed successfully!">> \in Range(out)

(***************************************************************************)
(* backend/deploy.py.                                                      *)
(*                                                                         *)
(* The value of an environment variable is a text; a variable that is not  *)
(* set is not in the domain of environ.                                    *)
(***************************************************************************)
\* what os.getenv gives for a variable that is not set
None == <<"None">>

\* the values the four variables are given; None leaves the variable unset
EnvironmentValues ==
    {None, <<>>, <<"production">>, <<"development">>, <<"Production">>}
FlagValues == {None, <<>>, <<"true">>}
DatabaseUrls ==
    {None, <<>>, <<"sqlite", ":///", "app.db">>, <<"postgresql", "://", "db">>,
     <<"mysql", "://", "db">>}

\* os.environ with these values
Environ(env, ci, render, url) ==
    LET given == [ENVIRONMENT |-> env, CI |-> ci, RENDER |-> render, DATABASE_URL |-> url]
    IN  [n \in {m \in DOMAIN given : given[m] # None} |-> given[n]]

\* os.getenv(name, default)
getenv(name, default) == IF name \in DOMAIN environ THEN environ[name] ELSE default

\* the truth value of what os.getenv gives
Truthy(v) == v # None /\ v # <<>>

\* what the operator types at "Continue anyway? (y/N):"
DeployAnswers ==
    { <<"y">>, <<"Y">>, <<"y", " ">>, <<"y", "e", "s">>, <<"n">>, <<>>,
      EOFError, KeyboardInterrupt }

DeployInit ==
    /\ pc = "main"
    /\ exit_code = -1
    /\ exit_at = ""
    /\ traceback = FALSE
    /\ skip_deps = FALSE
    /\ current_branch = <<>>
    /\ project_name = <<>>
    /\ description = <<>>
    /\ target_dir = <<>>
    /\ response = NotAsked
    /\ files = InitFiles
    /\ dirs = InitDirs
    /\ repo = NoRepo
    /\ out = <<>>
    /\ ran = <<>>
    /\ cmds = <<>>
    /\ \E env \in EnvironmentValues, ci, render \in FlagValues, url \in DatabaseUrls :
          environ = Environ(env, ci, render, url)

\* what a run of deploy.py leaves alone
deployframe ==
    << environ, current_branch, skip_deps, project_name, description, target_dir,
       files, dirs, repo >>

\* a faulty variant of CheckEnvironmentName: every answer but n goes on
CheckEnvironmentName_default_yes ==
    /\ pc = "main"
    /\ LET env == getenv("ENVIRONMENT", <<"development">>)
           started == Append(out, <<"Starting production deployment...">>)
           warned  == Append(started, <<"Warning: ENVIRONMENT is not 'production'">>)
       IN  IF env = <<"production">>
           THEN /\ out' = started
                /\ pc' = "database"
                /\ Running
                /\ UNCHANGED response
           ELSE IF Truthy(getenv("CI", None)) \/ Truthy(getenv("RENDER", None))
           THEN /\ out' = Append(warned, <<"Running in automated environment, continuing...">>)
                /\ pc' = "database"
                /\ Running
                /\ UNCHANGED response
           ELSE \E typed \in DeployAnswers :
                  /\ response' = typed
                  /\ IF typed = EOFError
                     THEN /\ out' = warned
                          /\ Exit(1, "uncaught EOFError", TRUE)
                     ELSE IF typed = KeyboardInterrupt
                     THEN /\ out' = warned
                          /\ \E code \in {1, 130} :
                                Exit(code, "uncaught KeyboardInterrupt", TRUE)
                     ELSE IF Lower(typed) = <<"n">>
                     THEN /\ out' = Append(warned, <<"Deployment cancelled">>)
                          /\ Exit(1, "cancelled", FALSE)
                     ELSE /\ out' = warned
                          /\ pc' = "database"
                          /\ Running
    /\ UNCHANGED << deployframe, ran, cmds >>

\* main, lines 72-77, and check_environment, lines 27-37: outside production
\* a warning is printed, and unless CI or RENDER has a value the operator is
\* asked; any answer but y, in lower case, ends the run
CheckEnvironmentName ==
    /\ pc = "main"
    /\ LET env == getenv("ENVIRONMENT", <<"development">>)
           started == Append(out, <<"Starting production deployment...">>)
           warned  == Append(started, <<"Warning: ENVIRONMENT is not 'production'">>)
       IN  IF env = <<"production">>
           THEN /\ out' = started
                /\ pc' = "database"
                /\ Running
                /\ UNCHANGED response
           ELSE IF Truthy(getenv("CI", None)) \/ Truthy(getenv("RENDER", None))
           THEN /\ out' = Append(warned, <<"Running in automated environment, continuing...">>)
                /\ pc' = "database"
                /\ Running
                /\ UNCHANGED response
           ELSE \E typed \in DeployAnswers :
                  /\ response' = typed
                  /\ IF typed = EOFError
                     THEN /\ out' = warned
                          /\ Exit(1, "uncaught EOFError", TRUE)
                     ELSE IF typed = KeyboardInterrupt
                     THEN /\ out' = warned
                          /\ \E code \in {1, 130} :
                                Exit(code, "uncaught KeyboardInterrupt", TRUE)
                     ELSE IF Lower(typed) # <<"y">>
                     THEN /\ out' = Append(warned, <<"Deployment cancelled">>)
                          /\ Exit(1, "cancelled", FALSE)
                     ELSE /\ out' = warned
                          /\ pc' = "database"
                          /\ Running
    /\ UNCHANGED << deployframe, ran, cmds >>

\* check_environment, lines 39-50: without a DATABASE_URL, or with an empty
\* one, the run ends; the kind of database is printed
CheckDatabaseUrl ==
    /\ pc = "database"
    /\ LET database_url == getenv("DATABASE_URL", None)
       IN  IF ~Truthy(database_url)
           THEN /\ out' = Append(out, <<"DATABASE_URL environment variable is not set">>)
                /\ Exit(1, "no DATABASE_URL", FALSE)
                /\ ran' = ran
           ELSE /\ out' = out
                        \o (IF Contains(database_url, <<"sqlite">>)
                            THEN << <<"Warning: Using SQLite database (development mode)">> >>
                            ELSE IF Contains(database_url, <<"postgresql">>)
                            THEN << <<"Using PostgreSQL database (production mode)">>,
                                    <<"Database driver check skipped">> >>
                            ELSE <<>>)
                        \o << <<"Environment check passed">> >>
                /\ ran' = Append(ran, [step |-> "check_environment", ok |-> TRUE])
                /\ pc' = "migrate"
                /\ Running
    /\ UNCHANGED << deployframe, response, cmds >>

\* run_migrations, lines 52-70, and main, lines 79-85: alembic is run, and a
\* status other than 0 ends the run with 1
RunMigrations ==
    /\ pc = "migrate"
    /\ cmds' = Append(cmds, "alembic upgrade head")
    /\ \E status \in {0, 1, 127} :
        /\ ran' = Append(ran, [step |-> "run_migrations", ok |-> status = 0])
        /\ IF status = 0
           THEN /\ out' = out \o << <<"Running database migrations...">>,
                                    <<"Database migrations completed successfully">>,
                                    <<"Deployment completed successfully!">> >>
                /\ Exit(0, "end of main", FALSE)
           ELSE /\ out' = out \o << <<"Running database migrations...">>,
                                    <<"Database migrations failed">>,
                                    <<"Deployment failed due to migration errors">> >>
                /\ Exit(1, "migrations failed", FALSE)
    /\ UNCHANGED << deployframe, response >>

DeployNext ==
    \/ CheckEnvironmentName
    \/ CheckDatabaseUrl
    \/ RunMigrations

DeploySpec == DeployInit /\ [][DeployNext]_vars

\* the migrations were started
MigrationsRun == "alembic upgrade head" \in Range(cmds)

\* ENVIRONMENT is production, or CI or RENDER is set
ProductionOrAutomated ==
    \/ ("ENVIRONMENT" \in DOMAIN environ /\ environ["ENVIRONMENT"] = <<"production">>)
    \/ "CI" \in DOMAIN environ
    \/ "RENDER" \in DOMAIN environ

\* C33 as it is stated: the migrations are run only when DATABASE_URL is set
\* and ENVIRONMENT is production, or CI or RENDER is set, or the operator
\* answered y; in every other case the run ends with the exit code 1 and
\* without migrations; and a failed migration ends it with 1.
C33_MigrationsAfterCheck ==
    LET passed == /\ "DATABASE_URL" \in DOMAIN environ
                  /\ ProductionOrAutomated \/ response = <<"y">>
    IN  /\ MigrationsRun => passed
        /\ (pc = "done" /\ ~passed) => (exit_code = 1 /\ ~MigrationsRun)
        /\ \A k \in 1..Len(ran) :
              (ran[k].step = "run_migrations" /\ ~ran[k].ok) => exit_code = 1

\* C33, amended: the migrations are run only when DATABASE_URL is set and
\* ENVIRONMENT is production, or CI or RENDER is set, or the operator's
\* answer is y in lower case (y or Y); in every other case the run ends
\* without migrations, with the exit code 1 or, when the prompt was
\* interrupted, with the status of the interrupt; and a failed migration ends
\* it with 1.
C33_MigrationsAfterCheckAnswerInLowerCase ==
    LET passed == /\ "DATABASE_URL" \in DOMAIN environ
                  /\ ProductionOrAutomated \/ Lower(response) = <<"y">>
    IN  /\ MigrationsRun =>
              /\ passed
              /\ ran[1] = [step |-> "check_environment", ok |-> TRUE]
        /\ (pc = "done" /\ ~passed) =>
              /\ ~MigrationsRun
              /\ exit_code = 1 \/ (response = KeyboardInterrupt /\ exit_code = 130)
        /\ \A k \in 1..Len(ran) :
              (ran[k].step = "run_migrations" /\ ~ran[k].ok) => exit_code = 1

\* outside production and automation the operator answered Y, and the
\* migrations ran
C33_Witness ==
    /\ pc = "done"
    /\ exit_code = 0
    /\ "ENVIRONMENT" \notin DOMAIN environ
    /\ ~ProductionOrAutomated
    /\ response = <<"Y">>
    /\ MigrationsRun

=============================================================================
